---- MODULE Spec2Model ----
(***************************************************************************)
(* Model of the uniserde serialization engine (handler cache, fieldwise    *)
(* and lazy record handlers, JSON/BSON converters, case conversion).       *)
(*                                                                         *)
(* Python values and wire documents are tagged records [k |-> kind, ...].  *)
(* Strings that the code inspects character by character (field names,    *)
(* enumeration names, tags) are sequences of one-character strings.        *)
(***************************************************************************)
EXTENDS Integers, Sequences, FiniteSets, TLC

VARIABLES scope, cache, last, obj, thr, en

vars == <<scope, cache, last, obj, thr, en>>

(***************************************************************************)
(* Bounds of the model.                                                    *)
(***************************************************************************)
MaxInt == 2

MaxListLen == 1

MaxTagLen == 3

(***************************************************************************)
(* Characters and case conversion (case_convert.py).                       *)
(***************************************************************************)
LowerChars == <<"a", "b", "c", "d", "e", "f", "g", "h", "i", "j", "k", "l", "m",
                "n", "o", "p", "q", "r", "s", "t", "u", "v", "w", "x", "y", "z">>

UpperChars == <<"A", "B", "C", "D", "E", "F", "G", "H", "I", "J", "K", "L", "M",
                "N", "O", "P", "Q", "R", "S", "T", "U", "V", "W", "X", "Y", "Z">>

IsAsciiLower(ch) == \E i \in 1..Len(LowerChars) : LowerChars[i] = ch

IsAsciiUpper(ch) == \E i \in 1..Len(UpperChars) : UpperChars[i] = ch

CharUpper(ch) ==
    IF IsAsciiLower(ch)
    THEN UpperChars[CHOOSE i \in 1..Len(LowerChars) : LowerChars[i] = ch]
    ELSE ch

CharLower(ch) ==
    IF IsAsciiUpper(ch)
    THEN LowerChars[CHOOSE i \in 1..Len(UpperChars) : UpperChars[i] = ch]
    ELSE ch

StrUpper(s) == [i \in 1..Len(s) |-> CharUpper(s[i])]

StrLower(s) == [i \in 1..Len(s) |-> CharLower(s[i])]

\* str.capitalize(): first character upper-cased, the rest lower-cased
Capitalize(s) == [i \in 1..Len(s) |-> IF i = 1 THEN CharUpper(s[i]) ELSE CharLower(s[i])]

\* c == c.lower()
_is_lower(s) == s = StrLower(s)

\* c == c.upper()
_is_upper(s) == s = StrUpper(s)

RECURSIVE Join(_)
\* The TLA+ string spelled by a sequence of characters
Join(s) == IF s = <<>> THEN "" ELSE Head(s) \o Join(Tail(s))

RECURSIVE SplitUnderscore(_, _, _)
\* name.split("_"): cur is the part being collected, acc the finished parts
SplitUnderscore(s, cur, acc) ==
    IF s = <<>> THEN Append(acc, cur)
    ELSE IF Head(s) = "_" THEN SplitUnderscore(Tail(s), <<>>, Append(acc, cur))
    ELSE SplitUnderscore(Tail(s), Append(cur, Head(s)), acc)

RECURSIVE JoinCapitalized(_)
JoinCapitalized(parts) ==
    IF parts = <<>> THEN <<>> ELSE Capitalize(Head(parts)) \o JoinCapitalized(Tail(parts))

\* Result of a conversion whose assertion failed
AssertionFailed == <<"!", "A", "s", "s", "e", "r", "t", "i", "o", "n", "E", "r", "r", "o", "r">>

all_lower_to_camel_case(name) ==
    IF ~_is_lower(name) THEN AssertionFailed
    ELSE IF name = <<>> THEN <<>>
    ELSE LET parts == SplitUnderscore(name, <<>>, <<>>)
         IN  parts[1] \o JoinCapitalized(Tail(parts))

all_upper_to_camel_case(name) ==
    IF ~_is_upper(name) THEN AssertionFailed
    ELSE IF name = <<>> THEN <<>>
    ELSE LET parts == SplitUnderscore(name, <<>>, <<>>)
         IN  StrLower(parts[1]) \o JoinCapitalized(Tail(parts))

\* _SPLIT_CAMEL_CASE_PATTERN ends a match before position p (1 < p <= Len(s))
\* when (?<=[a-z])(?=[A-Z]) or (?<=[A-Z])(?=[A-Z][a-z]) holds there
CamelBoundary(s, p) ==
    \/ IsAsciiLower(s[p - 1]) /\ IsAsciiUpper(s[p])
    \/ /\ IsAsciiUpper(s[p - 1]) /\ IsAsciiUpper(s[p])
       /\ p + 1 <= Len(s) /\ IsAsciiLower(s[p + 1])

RECURSIVE CamelJoin(_, _)
\* "_".join(group.upper() for the groups the pattern finds), from position p on
CamelJoin(s, p) ==
    IF p > Len(s) THEN <<>>
    ELSE (IF p > 1 /\ CamelBoundary(s, p) THEN <<"_">> ELSE <<>>)
         \o <<CharUpper(s[p])>> \o CamelJoin(s, p + 1)

camel_case_to_all_upper(name) == CamelJoin(name, 1)

upper_camel_case_to_camel_case(name) ==
    IF name = <<>> THEN <<>> ELSE <<CharLower(name[1])>> \o Tail(name)

(***************************************************************************)
(* The types the engine is exercised on.  A type is named by a string;    *)
(* TypeTable gives get_origin/get_args of the parameterized ones, ClassDef *)
(* the declared fields (get_type_hints order), the direct subclasses       *)
(* (__subclasses__ order) and the as_child marker of the record classes.   *)
(***************************************************************************)
ScalarTypes == {"bool", "int", "float", "str"}

TypeTable ==
    [ list_int      |-> [origin |-> "list",  args |-> <<"int">>],
      list_Point    |-> [origin |-> "list",  args |-> <<"Point">>],
      list_str      |-> [origin |-> "list",  args |-> <<"str">>],
      set_int       |-> [origin |-> "set",   args |-> <<"int">>],
      set_str       |-> [origin |-> "set",   args |-> <<"str">>],
      tuple_str_int |-> [origin |-> "tuple", args |-> <<"str", "int">>],
      dict_str_str  |-> [origin |-> "dict",  args |-> <<"str", "str">>],
      tuple_int_str |-> [origin |-> "tuple", args |-> <<"int", "str">>],
      dict_str_int  |-> [origin |-> "dict",  args |-> <<"str", "int">>],
      Optional_int  |-> [origin |-> "Union", args |-> <<"int", "NoneType">>],
      Optional_str  |-> [origin |-> "Union", args |-> <<"str", "NoneType">>],
      Optional_Point |-> [origin |-> "Union", args |-> <<"Point", "NoneType">>],
      Optional_Node |-> [origin |-> "Union", args |-> <<"Node", "NoneType">>],
      list_Node     |-> [origin |-> "list",  args |-> <<"Node">>],
      Optional_PB   |-> [origin |-> "Union", args |-> <<"PB", "NoneType">>],
      list_PA       |-> [origin |-> "list",  args |-> <<"PA">>],
      frozenset_int |-> [origin |-> "frozenset", args |-> <<"int">>] ]

GenericTypes == DOMAIN TypeTable

ClassDef ==
    [ Point |-> [ name |-> <<"P", "o", "i", "n", "t">>,
                  fields |-> << [py |-> <<"x">>, type |-> "int"],
                                [py |-> <<"y">>, type |-> "int"] >>,
                  subclasses |-> <<>>, as_child |-> FALSE ],
      Item  |-> [ name |-> <<"I", "t", "e", "m">>,
                  fields |-> << [py |-> <<"i", "d">>, type |-> "int"],
                                [py |-> <<"f", "o", "o", "_", "b", "a", "r">>,
                                 type |-> "Optional_str"],
                                [py |-> <<"t", "a", "g", "s">>, type |-> "list_int"] >>,
                  subclasses |-> <<>>, as_child |-> FALSE ],
      Outer |-> [ name |-> <<"O", "u", "t", "e", "r">>,
                  fields |-> << [py |-> <<"p">>, type |-> "Point"],
                                [py |-> <<"w">>, type |-> "float"],
                                [py |-> <<"o", "k">>, type |-> "bool"] >>,
                  subclasses |-> <<>>, as_child |-> FALSE ],
      Bag   |-> [ name |-> <<"B", "a", "g">>,
                  fields |-> << [py |-> <<"p">>, type |-> "Point"],
                                [py |-> <<"q">>, type |-> "frozenset_int"] >>,
                  subclasses |-> <<>>, as_child |-> FALSE ],
      Stamp |-> [ name |-> <<"S", "t", "a", "m", "p">>,
                  fields |-> << [py |-> <<"i", "d">>, type |-> "int"] >>,
                  subclasses |-> <<>>, as_child |-> FALSE ],
      Seal  |-> [ name |-> <<"S", "e", "a", "l">>,
                  fields |-> << [py |-> <<"i", "d">>, type |-> "int"] >>,
                  subclasses |-> <<>>, as_child |-> FALSE ],
      Mark  |-> [ name |-> <<"M", "a", "r", "k">>,
                  fields |-> << [py |-> <<"i", "d">>, type |-> "int"] >>,
                  subclasses |-> <<>>, as_child |-> FALSE ],
      Scalars |-> [ name |-> <<"S", "c", "a", "l", "a", "r", "s">>,
                    fields |-> << [py |-> <<"b">>, type |-> "bool"],
                                  [py |-> <<"n">>, type |-> "int"],
                                  [py |-> <<"w">>, type |-> "float"],
                                  [py |-> <<"s">>, type |-> "str"] >>,
                    subclasses |-> <<>>, as_child |-> FALSE ],
      Tagged |-> [ name |-> <<"T", "a", "g", "g", "e", "d">>,
                   fields |-> << [py |-> <<"i", "d", "_">>, type |-> "int"] >>,
                   subclasses |-> <<>>, as_child |-> FALSE ],
      Clash |-> [ name |-> <<"C", "l", "a", "s", "h">>,
                  fields |-> << [py |-> <<"a">>, type |-> "int"],
                                [py |-> <<"a", "_">>, type |-> "int"] >>,
                  subclasses |-> <<>>, as_child |-> FALSE ],
      Event |-> [ name |-> <<"E", "v", "e", "n", "t">>,
                  fields |-> << [py |-> <<"t", "y", "p", "e">>, type |-> "str"] >>,
                  subclasses |-> <<"Alarm">>, as_child |-> TRUE ],
      Alarm |-> [ name |-> <<"A", "l", "a", "r", "m">>,
                  fields |-> << [py |-> <<"t", "y", "p", "e">>, type |-> "str"],
                                [py |-> <<"n">>, type |-> "int"] >>,
                  subclasses |-> <<>>, as_child |-> TRUE ],
      Node  |-> [ name |-> <<"N", "o", "d", "e">>,
                  fields |-> << [py |-> <<"v">>, type |-> "int"],
                                [py |-> <<"n", "e", "x", "t">>, type |-> "Optional_Node"],
                                [py |-> <<"c", "h", "i", "l", "d", "r", "e", "n">>,
                                 type |-> "list_Node"] >>,
                  subclasses |-> <<>>, as_child |-> FALSE ],
      PA    |-> [ name |-> <<"P", "A">>,
                  fields |-> << [py |-> <<"b">>, type |-> "Optional_PB"] >>,
                  subclasses |-> <<>>, as_child |-> FALSE ],
      PB    |-> [ name |-> <<"P", "B">>,
                  fields |-> << [py |-> <<"a">>, type |-> "list_PA"] >>,
                  subclasses |-> <<>>, as_child |-> FALSE ],
      Hook  |-> [ name |-> <<"H", "o", "o", "k">>,
                  fields |-> << [py |-> <<"p">>, type |-> "Point"] >>,
                  subclasses |-> <<>>, as_child |-> FALSE ],
      Base  |-> [ name |-> <<"B", "a", "s", "e">>,
                  fields |-> <<>>,
                  subclasses |-> <<"A", "B">>, as_child |-> TRUE ],
      A     |-> [ name |-> <<"A">>,
                  fields |-> << [py |-> <<"x">>, type |-> "int"] >>,
                  subclasses |-> <<>>, as_child |-> TRUE ],
      B     |-> [ name |-> <<"B">>,
                  fields |-> << [py |-> <<"y">>, type |-> "str"] >>,
                  subclasses |-> <<>>, as_child |-> TRUE ] ]

Classes == DOMAIN ClassDef

\* the methods of serde_class.Serde that a class defines itself
MethodOverrides ==
    [ Stamp |-> {"as_json"}, Seal |-> {"as_bson"}, Mark |-> {"from_json"} ]

MethodClasses == DOMAIN MethodOverrides

\* the classes that define __getattr__ themselves
OwnGetattr == {"Hook"}

\* getattr(cls, name).__func__ is not getattr(serde_class.Serde, name).__func__
overrides_method(cls, name) == cls \in MethodClasses /\ name \in MethodOverrides[cls]

Types == ScalarTypes \cup GenericTypes \cup Classes

\* inspect.isclass(value_type)
IsClass(T) == T \in Classes \cup ScalarTypes

get_type_key(T) == IF T \in GenericTypes THEN TypeTable[T].origin ELSE T

\* get_args answering for the type key: the arguments of one
\* parameterization of the origin of T, whichever T is
get_args_of_key(T) ==
    TypeTable[CHOOSE U \in GenericTypes : TypeTable[U].origin = TypeTable[T].origin].args

get_args(T) == TypeTable[T].args

should_serialize_as_child(cls) == ClassDef[cls].as_child

custom_get_type_hints(cls) == ClassDef[cls].fields

RECURSIVE all_subclasses_list(_)
RECURSIVE all_subclasses(_, _)
\* all_subclasses(cls, include_cls), as the sequence the generator yields
all_subclasses(cls, include_cls) ==
    (IF include_cls THEN <<cls>> ELSE <<>>) \o all_subclasses_list(ClassDef[cls].subclasses)

all_subclasses_list(subs) ==
    IF subs = <<>> THEN <<>>
    ELSE all_subclasses(Head(subs), TRUE) \o all_subclasses_list(Tail(subs))

\* issubclass(c, d)
IsSubclass(c, d) == \E i \in 1..Len(all_subclasses(d, TRUE)) : all_subclasses(d, TRUE)[i] = c

(***************************************************************************)
(* Values.  Python values and wire values share one representation:        *)
(* The payload of each kind has a field name of its own:                   *)
(*   none; bool b; int i; float x (the float x.0); str s;                  *)
(*   list l and tuple tu (sequences); set se (a set);                      *)
(*   dict d (a wire object: a function on strings);                        *)
(*   map mp (a decoded dict: a set of <<key, value>>);                     *)
(*   obj t, o (class, function on field names);                            *)
(*   ovr cb, raw (the value an override callable cb made from raw);        *)
(*   err e, m, n (exception class, message, names in the message).         *)
(***************************************************************************)
None == [k |-> "none"]

MkBool(b) == [k |-> "bool", b |-> b]

MkInt(n) == [k |-> "int", i |-> n]

MkFloat(n) == [k |-> "float", x |-> n]

MkStr(s) == [k |-> "str", s |-> s]

\* a str given by its characters (or, for a date/time string, its parts)
MkChars(cs) == [k |-> "str", cs |-> cs]

\* a datetime: the instant at and tzinfo tz ("naive" when tzinfo is None)
MkDatetime(at, tz) == [k |-> "datetime", at |-> at, tz |-> tz]

\* an ObjectId: the hex digits of its _id_blob
MkOid(hex) == [k |-> "oid", hex |-> hex]

MkList(s) == [k |-> "list", l |-> s]

MkTuple(s) == [k |-> "tuple", tu |-> s]

MkSet(S) == [k |-> "set", se |-> S]

MkMap(S) == [k |-> "map", mp |-> S]

MkDict(f) == [k |-> "dict", d |-> f]

MkObj(cls, f) == [k |-> "obj", t |-> cls, o |-> f]

Raise(exc, msg, names) == [k |-> "err", e |-> exc, m |-> msg, n |-> names]

SerdeError(msg, names) == Raise("SerdeError", msg, names)

IsErr(r) == r.k = "err"

EmptyDict == <<>>

\* d[name] = value on a Python dict: a later store under the same key wins
DictSet(d, name, value) == [x \in DOMAIN d \cup {name} |-> IF x = name THEN value ELSE d[x]]

\* the dict left by d.pop(name)
DictDel(d, name) == [x \in DOMAIN d \ {name} |-> d[x]]

\* isinstance(value, typ) for the scalar classes; bool is a subclass of int
IsInstance(value, typ) ==
    CASE typ = "bool"  -> value.k = "bool"
      [] typ = "int"   -> value.k \in {"int", "bool"}
      [] typ = "float" -> value.k = "float"
      [] typ = "str"   -> value.k = "str"
      [] typ = "datetime" -> value.k = "datetime"
      [] typ = "ObjectId" -> value.k = "oid"
      [] OTHER         -> FALSE

(***************************************************************************)
(* Serialization: common_serialize with the JSON_SERIALIZERS /             *)
(* BSON_SERIALIZERS entries of the kinds above, and serialize_class.       *)
(* fmt is "json" or "bson".  A failed assert is the error AssertionError.  *)
(***************************************************************************)
AssertionError == Raise("AssertionError", "assert", {})

\* the method name of the class of value, defined by that class, called on
\* value (an instance for as_json / as_bson, a document for from_json /
\* from_bson)
CallMethod(name, value) == [k |-> "ovr", cb |-> name, raw |-> value]

FieldPyName(field) == Join(field.py)

\* case_convert.all_lower_to_camel_case(field_py_name), as a dict key
JsonDocName(field) == Join(all_lower_to_camel_case(field.py))

\* serialize_float_to_float: float(value) of a bool, an int or a float
ToFloat(value) ==
    IF value.k = "bool" THEN MkFloat(IF value.b THEN 1 ELSE 0)
    ELSE IF value.k = "int" THEN MkFloat(value.i) ELSE value

\* datetime.isoformat(): the date and time, then the offset when there is one
isoformat(value) ==
    IF value.tz = "naive" THEN <<value.at>> ELSE <<value.at, value.tz>>

\* json_serialize.serialize_datetime_to_str
serialize_datetime_to_str(value) ==
    IF value.k # "datetime" THEN AssertionError
    ELSE IF value.tz = "naive" THEN AssertionError
    ELSE MkChars(isoformat(value))

\* bson_serialize.serialize_datetime_to_datetime
serialize_datetime_to_datetime(value) ==
    IF value.k # "datetime" THEN AssertionError
    ELSE IF value.tz = "naive" THEN AssertionError
    ELSE value

\* json_serialize.serialize_object_id_to_str: str(value) is the hexlified blob
serialize_object_id_to_str(value) ==
    IF value.k # "oid" THEN AssertionError ELSE MkChars(value.hex)

\* bson_serialize.serialize_object_id_to_object_id
serialize_object_id_to_object_id(value) ==
    IF value.k # "oid" THEN AssertionError ELSE value

RECURSIVE SetSeq(_)
\* the elements of a set (the items of a dict) in the order of iteration
SetSeq(S) == IF S = {} THEN <<>> ELSE <<CHOOSE x \in S : TRUE>> \o SetSeq(S \ {CHOOSE x \in S : TRUE})

RECURSIVE common_serialize(_, _, _)
RECURSIVE serialize_items(_, _, _, _)
RECURSIVE serialize_dict_items(_, _, _, _, _)
RECURSIVE serialize_fields(_, _, _, _, _)

\* [recur(v, subtypes[i]) for v in items]; a list has one subtype for all
serialize_items(fmt, items, subtypes, i) ==
    IF i > Len(items) THEN MkList(<<>>)
    ELSE LET Cons(head, rest) ==
                 IF IsErr(head) THEN head
                 ELSE IF IsErr(rest) THEN rest
                 ELSE MkList(<<head>> \o rest.l)
         IN  Cons(common_serialize(fmt, items[i],
                                   IF Len(subtypes) = 1 THEN subtypes[1] ELSE subtypes[i]),
                  serialize_items(fmt, items, subtypes, i + 1))

\* {recur(k, subtypes[0]): recur(v, subtypes[1]) for k, v in value.items()};
\* the key types modelled are str, so a key that was serialized is a str
serialize_dict_items(fmt, items, subtypes, i, result) ==
    IF i > Len(items) THEN MkDict(result)
    ELSE LET Item(key, val) ==
                 IF IsErr(key) THEN key
                 ELSE IF IsErr(val) THEN val
                 ELSE serialize_dict_items(fmt, items, subtypes, i + 1, DictSet(result, key.s, val))
         IN  Item(common_serialize(fmt, items[i][1], subtypes[1]),
                  IF IsErr(common_serialize(fmt, items[i][1], subtypes[1])) THEN None
                  ELSE common_serialize(fmt, items[i][2], subtypes[2]))

\* the loop of json_serialize.serialize_class over the type hints
serialize_fields(fmt, value, fields, i, result) ==
    IF i > Len(fields) THEN MkDict(result)
    ELSE IF ~_is_lower(fields[i].py) THEN AssertionError
    ELSE IF FieldPyName(fields[i]) \notin DOMAIN value.o
         THEN Raise("AttributeError", "getattr", {FieldPyName(fields[i])})
    ELSE LET Store(r) ==
                 IF IsErr(r) THEN r
                 ELSE serialize_fields(fmt, value, fields, i + 1,
                                       DictSet(result, JsonDocName(fields[i]), r))
         IN  Store(common_serialize(fmt, value.o[FieldPyName(fields[i])], fields[i].type))

\* serialize_class emitting the fields of the declared type instead of the
\* runtime class
json_serialize_class_static(fmt, value, value_type) ==
    IF value.k # "obj" THEN Raise("AttributeError", "getattr", {})
    ELSE IF overrides_method(value.t, "as_json") THEN CallMethod("as_json", value)
    ELSE IF should_serialize_as_child(value_type) /\ ~IsSubclass(value.t, value_type)
    THEN AssertionError
    ELSE LET Tag(r) ==
                 IF IsErr(r) THEN r
                 ELSE IF should_serialize_as_child(value_type)
                 THEN MkDict(DictSet(r.d, "type",
                         MkStr(Join(upper_camel_case_to_camel_case(ClassDef[value.t].name)))))
                 ELSE r
         IN  Tag(serialize_fields(fmt, value, custom_get_type_hints(value_type), 1, EmptyDict))

\* json_serialize.serialize_class (record classes)
json_serialize_class(fmt, value, value_type) ==
    IF value.k # "obj" THEN Raise("AttributeError", "getattr", {})
    ELSE IF overrides_method(value.t, "as_json") THEN CallMethod("as_json", value)
    ELSE IF should_serialize_as_child(value_type) /\ ~IsSubclass(value.t, value_type)
    THEN AssertionError
    ELSE LET Tag(vt, r) ==
                 IF IsErr(r) THEN r
                 ELSE IF should_serialize_as_child(vt)
                 THEN MkDict(DictSet(r.d, "type",
                         MkStr(Join(upper_camel_case_to_camel_case(ClassDef[value.t].name)))))
                 ELSE r
             Fields(vt) ==
                 Tag(vt, serialize_fields(fmt, value, custom_get_type_hints(vt), 1, EmptyDict))
         IN  Fields(IF should_serialize_as_child(value_type) THEN value.t ELSE value_type)

\* bson_serialize.serialize_class: "id" is stored as "_id"
bson_serialize_class(fmt, value, value_type) ==
    LET Rename(result) ==
            IF IsErr(result) THEN result
            ELSE IF value.k = "obj" /\ overrides_method(value.t, "as_bson")
            THEN CallMethod("as_bson", value)
            ELSE IF result.k = "dict" /\ "_id" \notin DOMAIN result.d /\ "id" \in DOMAIN result.d
            THEN MkDict(DictSet(DictDel(result.d, "id"), "_id", result.d["id"]))
            ELSE result
    IN  Rename(json_serialize_class(fmt, value, value_type))

serialize_class(fmt, value, value_type) ==
    IF fmt = "bson" THEN bson_serialize_class(fmt, value, value_type)
    ELSE json_serialize_class(fmt, value, value_type)

FirstNonNone(args) == args[CHOOSE i \in 1..Len(args) :
                             args[i] # "NoneType" /\ \A j \in 1..(i - 1) : args[j] = "NoneType"]

common_serialize(fmt, value, value_type) ==
    LET key == get_type_key(value_type)
    IN  CASE key = "bool"  -> IF value.k = "bool" THEN value ELSE AssertionError
          [] key = "int"   -> IF IsInstance(value, "int") THEN value ELSE AssertionError
          [] key = "float" -> IF value.k \in {"bool", "int", "float"}
                              THEN ToFloat(value) ELSE AssertionError
          [] key = "str"   -> IF value.k = "str" THEN value ELSE AssertionError
          [] key = "datetime" -> IF fmt = "bson" THEN serialize_datetime_to_datetime(value)
                                 ELSE serialize_datetime_to_str(value)
          [] key = "ObjectId" -> IF fmt = "bson" THEN serialize_object_id_to_object_id(value)
                                 ELSE serialize_object_id_to_str(value)
          [] key = "list"  -> IF value.k = "list"
                              THEN serialize_items(fmt, value.l, get_args(value_type), 1)
                              ELSE AssertionError
          [] key = "tuple" -> IF value.k = "tuple" /\ Len(value.tu) = Len(get_args(value_type))
                              THEN serialize_items(fmt, value.tu, get_args(value_type), 1)
                              ELSE AssertionError
          [] key = "set"   -> IF value.k = "set"
                              THEN serialize_items(fmt, SetSeq(value.se), get_args(value_type), 1)
                              ELSE AssertionError
          [] key = "dict"  -> IF value.k = "map"
                              THEN serialize_dict_items(fmt, SetSeq(value.mp),
                                                        get_args(value_type), 1, EmptyDict)
                              ELSE AssertionError
          [] key = "Union" -> IF value.k = "none" THEN None
                              ELSE common_serialize(fmt, value, FirstNonNone(get_args(value_type)))
          [] key \in Classes -> serialize_class(fmt, value, value_type)
          [] OTHER -> Raise("ValueError", "unsupported", {})

as_json(value, as_type) == common_serialize("json", value, as_type)

as_bson(value, as_type) == common_serialize("bson", value, as_type)

AsDoc(fmt, value, as_type) == IF fmt = "bson" THEN as_bson(value, as_type) ELSE as_json(value, as_type)

(***************************************************************************)
(* The values of a type that the operations are exercised on.              *)
(***************************************************************************)
IntVals == 1..MaxInt

StrVals == {"s"}

FloatVals == {1}

SeqsUpTo(S, n) == UNION {[1..m -> S] : m \in 0..n}

RECURSIVE Values(_)
RECURSIVE FieldVals(_, _)

\* all assignments of values to the fields from position i on
FieldVals(fields, i) ==
    IF i > Len(fields) THEN {EmptyDict}
    ELSE {DictSet(rest, FieldPyName(fields[i]), v) :
              v \in Values(fields[i].type), rest \in FieldVals(fields, i + 1)}

Values(T) ==
    CASE T = "bool"  -> {MkBool(b) : b \in BOOLEAN}
      [] T = "int"   -> {MkInt(n) : n \in IntVals}
      [] T = "float" -> {MkFloat(n) : n \in FloatVals}
      [] T = "str"   -> {MkStr(s) : s \in StrVals}
      [] T \in Classes ->
            IF should_serialize_as_child(T)
            THEN UNION {{MkObj(all_subclasses(T, TRUE)[i], f) :
                            f \in FieldVals(custom_get_type_hints(all_subclasses(T, TRUE)[i]), 1)} :
                        i \in 1..Len(all_subclasses(T, TRUE))}
            ELSE {MkObj(T, f) : f \in FieldVals(custom_get_type_hints(T), 1)}
      [] get_type_key(T) = "list" ->
            {MkList(s) : s \in SeqsUpTo(Values(get_args(T)[1]), MaxListLen)}
      [] get_type_key(T) = "Union" -> {None} \cup Values(FirstNonNone(get_args(T)))
      [] OTHER -> {}

(***************************************************************************)
(* Enumerations and flags: serialize_class of json_serialize.py and        *)
(* handle_enum / handle_flag of _create_class_handler.  A wire string is   *)
(* [k |-> "str", cs |-> characters] here, because the handlers convert its *)
(* case; an enumeration member is named by the characters of its name, a   *)
(* flag value is the set of the names of its bits.  Iterating a flag value *)
(* yields its one-bit members in definition order (enum.Flag.__iter__).    *)
(***************************************************************************)
EnumDef ==
    [ Kind |-> [flag |-> FALSE,
                members |-> << <<"A">>, <<"A", "B">>, <<"A", "_", "B">>, <<"B", "_", "1">> >>],
      Perm |-> [flag |-> TRUE,
                members |-> << <<"R">>, <<"W">>, <<"E", "X">> >>] ]

EnumTypes == DOMAIN EnumDef

Members(E) == {EnumDef[E].members[i] : i \in 1..Len(EnumDef[E].members)}

MkEnum(E, name) == [k |-> "enum", t |-> E, nm |-> name]

MkFlag(F, names) == [k |-> "flag", t |-> F, bits |-> names]

RECURSIVE flag_names(_, _, _)
\* [all_upper_to_camel_case(flag.name) for flag in value]
flag_names(value, members, i) ==
    IF i > Len(members) THEN <<>>
    ELSE (IF members[i] \in value.bits
          THEN <<MkChars(all_upper_to_camel_case(members[i]))>> ELSE <<>>)
         \o flag_names(value, members, i + 1)

\* json_serialize.serialize_class on a flag or an enumeration type
serialize_enum(value, value_type) ==
    IF EnumDef[value_type].flag
    THEN IF value.k # "flag" \/ value.t # value_type THEN AssertionError
         ELSE MkList(flag_names(value, EnumDef[value_type].members, 1))
    ELSE IF value.k # "enum" \/ value.t # value_type THEN AssertionError
         ELSE MkChars(all_upper_to_camel_case(value.nm))

\* handle_enum
handle_enum(value, value_type) ==
    IF value.k # "str" THEN SerdeError("Expected enumeration string", {})
    ELSE IF camel_case_to_all_upper(value.cs) \notin Members(value_type)
    THEN SerdeError("Invalid enumeration value", {})
    ELSE MkEnum(value_type, camel_case_to_all_upper(value.cs))

RECURSIVE flag_items(_, _, _, _)
\* the loop of handle_flag over the items of the list
flag_items(value_type, items, i, result) ==
    IF i > Len(items) THEN MkFlag(value_type, result)
    ELSE IF items[i].k # "str" THEN SerdeError("Expected enumeration string", {})
    ELSE IF camel_case_to_all_upper(items[i].cs) \notin Members(value_type)
    THEN SerdeError("Invalid enumeration value", {})
    ELSE flag_items(value_type, items, i + 1,
                    result \cup {camel_case_to_all_upper(items[i].cs)})

\* handle_flag
handle_flag(value, value_type) ==
    IF value.k # "list" THEN SerdeError("Expected a list", {})
    ELSE flag_items(value_type, value.l, 1, {})

(***************************************************************************)
(* Deserialization engine (caching_serdeserializer.py, json_deserialize.py,*)
(* bson_deserialize.py, lazy_wrapper.py).                                  *)
(*                                                                         *)
(* A deserializer instance ds is [fmt, custom, lazy]: the format, the      *)
(* _custom_deserializers map (type key -> callable) and the _lazy flag.    *)
(* The class-level _handler_cache of the format is threaded through every  *)
(* operator as c = [tab, w]: tab maps <<lazy, type_key>> to a handler and  *)
(* w lists the keys stored so far by the running call.                     *)
(* Handlers:                                                               *)
(*   [h |-> "passthrough", pt]   the closure of __init_subclass__          *)
(*   [h |-> "builtin", fn]       a _deserialize_* method                   *)
(*   [h |-> "custom", cb]        the lambda around a caller's override     *)
(*   [h |-> "method", name]      the lambda around a class's own method    *)
(*   [h |-> "enum", et]          handle_enum; [h |-> "flag", et] handle_flag *)
(*   [h |-> "fieldwise", fields] a FieldwiseClassHandler                   *)
(*   [h |-> "lazy", lt]          the _handler closure making lazy shells   *)
(*   [h |-> "as_child", table]   the handle_as_child closure               *)
(***************************************************************************)
PassthroughTypes == {"bool", "int", "float", "str"}

BuiltinKeys == {"tuple", "list", "set", "dict", "Union"}

\* _handler_cache of a deserializer class once the class body and
\* __init_subclass__ have run
InitialHandlerCache ==
    [key \in BOOLEAN \X (PassthroughTypes \cup BuiltinKeys) |->
        IF key[2] \in PassthroughTypes
        THEN [h |-> "passthrough", pt |-> key[2]]
        ELSE [h |-> "builtin", fn |-> key[2]]]

\* _passthrough_types of JsonDeserializer and of BsonDeserializer
_passthrough_types(fmt) ==
    PassthroughTypes \cup (IF fmt = "bson" THEN {"ObjectId"} ELSE {})

\* _handler_cache of the deserializer class of fmt with the entries for
\* datetime and ObjectId
HandlerCache(fmt) ==
    [key \in BOOLEAN \X (PassthroughTypes \cup BuiltinKeys \cup {"datetime", "ObjectId"}) |->
        IF key[2] \in _passthrough_types(fmt)
        THEN [h |-> "passthrough", pt |-> key[2]]
        ELSE IF key[2] = "datetime"
        THEN [h |-> "builtin",
              fn |-> IF fmt = "bson" THEN "datetime_from_datetime" ELSE "datetime_from_str"]
        ELSE IF key[2] = "ObjectId"
        THEN [h |-> "builtin", fn |-> "object_id_from_str"]
        ELSE InitialHandlerCache[key]]

\* the override callable cb applied to a raw value
ApplyOverride(cb, raw) == [k |-> "ovr", cb |-> cb, raw |-> raw]

\* {t: lambda v, _: cb(v) for t, cb in custom_deserializers.items()}:
\* every lambda reads the comprehension's cb when it is called
WrapOverrides(custom_deserializers) ==
    [t \in {custom_deserializers[i][1] : i \in 1..Len(custom_deserializers)} |->
        custom_deserializers[Len(custom_deserializers)][2]]

MkDeserializer(fmt, custom_deserializers, lazy) ==
    [fmt |-> fmt, custom |-> WrapOverrides(custom_deserializers), lazy |-> lazy]

\* _get_class_fields of JsonDeserializer and BsonDeserializer
_get_class_fields(ds, value_type) ==
    [i \in 1..Len(custom_get_type_hints(value_type)) |->
        LET field == custom_get_type_hints(value_type)[i]
        IN  [py   |-> FieldPyName(field),
             doc  |-> IF ds.fmt = "bson" /\ field.py = <<"i", "d">> THEN "_id"
                      ELSE JsonDocName(field),
             type |-> field.type]]

\* lazy_wrapper.can_create_lazy_instance
can_create_lazy_instance(value_type) == value_type \notin OwnGetattr

\* the isinstance test of process and of the passthrough handlers
PassthroughCheck(value, typ) ==
    IF ~IsInstance(value, typ) /\ ~(IsInstance(value, "int") /\ typ = "float")
    THEN SerdeError("Expected type", {typ})
    ELSE value

CacheStore(c, key, handler) ==
    [tab |-> [x \in DOMAIN c.tab \cup {key} |-> IF x = key THEN handler ELSE c.tab[x]],
     w   |-> Append(c.w, key)]

IsHandler(x) == "h" \in DOMAIN x

RECURSIVE _get_handler(_, _, _)
RECURSIVE _create_class_handler(_, _, _)
RECURSIVE _create_fieldwise_class_handler(_, _, _)
RECURSIVE add_fields(_, _, _, _, _)
RECURSIVE add_children(_, _, _, _, _)
RECURSIVE _get_handler_rebuild(_, _, _)

\* the loop of _create_fieldwise_class_handler: handler.add_field(...)
add_fields(c, ds, fields, i, acc) ==
    IF i > Len(fields) THEN [c |-> c, h |-> [h |-> "fieldwise", fields |-> acc]]
    ELSE LET AddField(g) ==
                 IF ~IsHandler(g.h) THEN g
                 ELSE add_fields(g.c, ds, fields, i + 1,
                                 Append(acc, [py |-> fields[i].py, doc |-> fields[i].doc,
                                              type |-> fields[i].type, handler |-> g.h]))
         IN  AddField(_get_handler(c, ds, fields[i].type))

\* _create_fieldwise_class_handler without the can_create_lazy_instance test
_create_fieldwise_class_handler_any(c, ds, value_type) ==
    IF ds.lazy
    THEN [c |-> c, h |-> [h |-> "lazy", lt |-> value_type]]
    ELSE add_fields(c, ds, _get_class_fields(ds, value_type), 1, <<>>)

_create_fieldwise_class_handler(c, ds, value_type) ==
    IF ds.lazy /\ can_create_lazy_instance(value_type)
    THEN [c |-> c, h |-> [h |-> "lazy", lt |-> value_type]]
    ELSE add_fields(c, ds, _get_class_fields(ds, value_type), 1, <<>>)

\* the dict comprehension child_classes_and_handlers_by_doc_name
add_children(c, ds, subs, i, table) ==
    IF i > Len(subs) THEN [c |-> c, h |-> [h |-> "as_child", table |-> table]]
    ELSE LET AddChild(g) ==
                 IF ~IsHandler(g.h) THEN g
                 ELSE add_children(g.c, ds, subs, i + 1,
                         DictSet(table,
                                 Join(upper_camel_case_to_camel_case(ClassDef[subs[i]].name)),
                                 [cls |-> subs[i], handler |-> g.h]))
         IN  AddChild(_create_fieldwise_class_handler(c, ds, subs[i]))

_create_class_handler(c, ds, value_type) ==
    IF overrides_method(value_type, "from_" \o ds.fmt)
    THEN [c |-> c, h |-> [h |-> "method", name |-> "from_" \o ds.fmt]]
    ELSE IF value_type \in EnumTypes
    THEN [c |-> c, h |-> [h |-> IF EnumDef[value_type].flag THEN "flag" ELSE "enum",
                          et |-> value_type]]
    ELSE IF should_serialize_as_child(value_type)
    THEN add_children(c, ds, all_subclasses(value_type, TRUE), 1, EmptyDict)
    ELSE _create_fieldwise_class_handler(c, ds, value_type)

\* _get_handler building and storing a class handler on a cache hit too
_get_handler_rebuild(c, ds, value_type) ==
    LET type_key == get_type_key(value_type)
    IN  IF type_key \in DOMAIN ds.custom
        THEN [c |-> c, h |-> [h |-> "custom", cb |-> ds.custom[type_key]]]
        ELSE IF <<ds.lazy, type_key>> \in DOMAIN c.tab /\ value_type \notin Classes
        THEN [c |-> c, h |-> c.tab[<<ds.lazy, type_key>>]]
        ELSE IF value_type \notin Classes \cup EnumTypes
        THEN [c |-> c, h |-> AssertionError]
        ELSE LET Store(g) ==
                     IF ~IsHandler(g.h) THEN g
                     ELSE [c |-> CacheStore(g.c, <<ds.lazy, type_key>>, g.h), h |-> g.h]
             IN  Store(_create_class_handler(c, ds, value_type))

_get_handler(c, ds, value_type) ==
    LET type_key == get_type_key(value_type)
    IN  IF type_key \in DOMAIN ds.custom
        THEN [c |-> c, h |-> [h |-> "custom", cb |-> ds.custom[type_key]]]
        ELSE IF <<ds.lazy, type_key>> \in DOMAIN c.tab
        THEN [c |-> c, h |-> c.tab[<<ds.lazy, type_key>>]]
        ELSE IF value_type \notin Classes \cup EnumTypes
        THEN [c |-> c, h |-> AssertionError]
        ELSE LET Store(g) ==
                     IF ~IsHandler(g.h) THEN g
                     ELSE [c |-> CacheStore(g.c, <<ds.lazy, type_key>>, g.h), h |-> g.h]
             IN  Store(_create_class_handler(c, ds, value_type))

\* the first argument of a parameterized type that is a record class with
\* no handler in the cache
UnresolvedArg(tab, ds, value_type) ==
    LET args == get_args(value_type)
    IN  args[CHOOSE i \in 1..Len(args) :
                 /\ args[i] \in Classes /\ <<ds.lazy, args[i]>> \notin DOMAIN tab
                 /\ \A j \in 1..(i - 1) :
                       ~(args[j] \in Classes /\ <<ds.lazy, args[j]>> \notin DOMAIN tab)]

\* _get_handler up to the construction, resolving the element handlers of a
\* parameterized type before the handler of the origin is returned
_get_handler_lookup_resolving(tab, ds, value_type) ==
    IF value_type \in GenericTypes
         /\ \E i \in 1..Len(get_args(value_type)) :
               /\ get_args(value_type)[i] \in Classes
               /\ <<ds.lazy, get_args(value_type)[i]>> \notin DOMAIN tab
    THEN [hit |-> FALSE, build |-> UnresolvedArg(tab, ds, value_type)]
    ELSE IF get_type_key(value_type) \in DOMAIN ds.custom
    THEN [hit |-> TRUE, h |-> [h |-> "custom", cb |-> ds.custom[get_type_key(value_type)]]]
    ELSE IF <<ds.lazy, get_type_key(value_type)>> \in DOMAIN tab
    THEN [hit |-> TRUE, h |-> tab[<<ds.lazy, get_type_key(value_type)>>]]
    ELSE [hit |-> FALSE, build |-> value_type]

\* _get_handler up to the construction: the override or the cached handler
\* of the type key, or the type a handler has to be built for
_get_handler_lookup(tab, ds, value_type) ==
    IF get_type_key(value_type) \in DOMAIN ds.custom
    THEN [hit |-> TRUE, h |-> [h |-> "custom", cb |-> ds.custom[get_type_key(value_type)]]]
    ELSE IF <<ds.lazy, get_type_key(value_type)>> \in DOMAIN tab
    THEN [hit |-> TRUE, h |-> tab[<<ds.lazy, get_type_key(value_type)>>]]
    ELSE [hit |-> FALSE, build |-> value_type]

(***************************************************************************)
(* The handlers of datetime and ObjectId.  A date/time string is a str     *)
(* whose parts are the date and time and, when present, the offset.        *)
(***************************************************************************)
Stamps == {"2020-01-01T00:00:00", "2020-06-01T12:00:00"}

Offsets == {"+00:00", "+01:00"}

\* dateutil.parser.isoparse: Z is the offset of UTC
isoparse(cs) ==
    IF Len(cs) = 1 /\ cs[1] \in Stamps THEN MkDatetime(cs[1], "naive")
    ELSE IF Len(cs) = 2 /\ cs[1] \in Stamps /\ cs[2] \in Offsets \cup {"Z"}
    THEN MkDatetime(cs[1], IF cs[2] = "Z" THEN "+00:00" ELSE cs[2])
    ELSE Raise("ValueError", "isoparse", {})

\* JsonDeserializer._deserialize_datetime_from_str
_deserialize_datetime_from_str(value) ==
    IF value.k # "str" THEN SerdeError("Expected date/time string", {})
    ELSE IF IsErr(isoparse(value.cs)) THEN SerdeError("Expected date/time", {})
    ELSE IF isoparse(value.cs).tz = "naive" THEN SerdeError("missing a timezone", {})
    ELSE isoparse(value.cs)

\* BsonDeserializer._deserialize_datetime_from_datetime
_deserialize_datetime_from_datetime(value) ==
    IF value.k # "datetime" THEN SerdeError("Expected datetime", {})
    ELSE IF value.tz = "naive" THEN MkDatetime(value.at, "+00:00")
    ELSE value

OidLen == 24

HexDigits ==
    {"0", "1", "2", "3", "4", "5", "6", "7", "8", "9",
     "a", "b", "c", "d", "e", "f", "A", "B", "C", "D", "E", "F"}

RECURSIVE fromhex(_, _, _)
\* bytes.fromhex: whitespace between the bytes is skipped, a byte is two
\* adjacent hex digits; the bytes are given by their hex digits in lower case
fromhex(cs, i, acc) ==
    IF i > Len(cs) THEN [k |-> "bytes", hex |-> acc]
    ELSE IF cs[i] = " " THEN fromhex(cs, i + 1, acc)
    ELSE IF i + 1 <= Len(cs) /\ cs[i] \in HexDigits /\ cs[i + 1] \in HexDigits
    THEN fromhex(cs, i + 2, acc \o <<CharLower(cs[i]), CharLower(cs[i + 1])>>)
    ELSE Raise("ValueError", "non-hexadecimal number", {})

\* objectid_proxy._ObjectId.__init__ on a value that is not None and not bytes
ObjectId(oid) ==
    IF oid.k = "str" /\ Len(oid.cs) = OidLen
    THEN IF IsErr(fromhex(oid.cs, 1, <<>>))
         THEN Raise("ValueError", "Invalid hex in ObjectId", {})
         ELSE MkOid(fromhex(oid.cs, 1, <<>>).hex)
    ELSE Raise("TypeError", "ObjectIds must be 12 bytes or 24-character hex strings", {})

\* JsonDeserializer._deserialize_object_id_from_str
_deserialize_object_id_from_str(value) ==
    IF value.k # "str" THEN SerdeError("Expected ObjectId string", {})
    ELSE IF IsErr(ObjectId(value)) /\ ObjectId(value).e = "ValueError"
    THEN SerdeError("Expected ObjectId string", {})
    ELSE ObjectId(value)

(***************************************************************************)
(* Applying handlers.  Every operator returns [c, r]: the cache after the  *)
(* call and the value returned, or the exception raised (an err value).    *)
(***************************************************************************)
MkLazy(cls, serialized, ds) ==
    [k |-> "lazy", t |-> cls, o |-> EmptyDict, rem |-> serialized, ds |-> ds]

\* lazy_wrapper.create_lazy_instance
create_lazy_instance(serialized, ds, value_type) ==
    IF serialized.k # "dict" THEN AssertionError
    ELSE MkLazy(value_type, serialized.d, ds)

\* value.pop("type") on a wire value of any kind
PopTypeTag(value) ==
    CASE value.k = "dict" -> IF "type" \in DOMAIN value.d THEN value.d["type"]
                             ELSE SerdeError("Object is missing the type field", {})
      [] value.k = "list" -> Raise("TypeError", "pop", {})
      [] OTHER            -> Raise("AttributeError", "pop", {})

\* child_classes_and_handlers_by_doc_name[type_tag]: a list or a dict is
\* unhashable, any other value that is not a key gives KeyError
Hashable(value) == value.k \notin {"list", "dict"}

RECURSIVE process(_, _, _, _)
RECURSIVE call_handler(_, _, _, _, _)
RECURSIVE process_items(_, _, _, _, _, _)
RECURSIVE call_items(_, _, _, _, _, _, _)
RECURSIVE call_dict_items(_, _, _, _, _, _, _)
RECURSIVE fieldwise_call(_, _, _, _, _, _, _)

\* self.process(v, subtype) over the items, in order, until one raises
process_items(c, ds, items, subtypes, i, acc) ==
    IF i > Len(items) THEN [c |-> c, r |-> MkList(acc)]
    ELSE LET Collect(p) ==
                 IF IsErr(p.r) THEN p
                 ELSE process_items(p.c, ds, items, subtypes, i + 1, Append(acc, p.r))
         IN  Collect(process(c, ds, items[i],
                             IF Len(subtypes) = 1 THEN subtypes[1] ELSE subtypes[i]))

\* [child_deserializer(self, v, subtype) for v in value]
call_items(c, ds, handler, items, subtype, i, acc) ==
    IF i > Len(items) THEN [c |-> c, r |-> MkList(acc)]
    ELSE LET Collect(p) ==
                 IF IsErr(p.r) THEN p
                 ELSE call_items(p.c, ds, handler, items, subtype, i + 1, Append(acc, p.r))
         IN  Collect(call_handler(c, ds, handler, items[i], subtype))

\* the comprehension of _deserialize_dict_from_dict over the keys not yet
\* visited; todo is the set of keys left
call_dict_items(c, ds, kh, vh, value, todo, acc) ==
    IF todo = {} THEN [c |-> c, r |-> MkMap(acc)]
    ELSE LET Item(key, pk, pv) ==
                 IF IsErr(pv.r) THEN pv
                 ELSE call_dict_items(pv.c, ds, kh, vh, value, todo \ {key},
                                      acc \cup {<<pk.r, pv.r>>})
             Key(key, pk) ==
                 IF IsErr(pk.r) THEN pk
                 ELSE Item(key, pk,
                           call_handler(pk.c, ds, vh, value.d[key], get_args(value.ty)[2]))
             Visit(key) ==
                 Key(key, call_handler(c, ds, kh, MkStr(key), get_args(value.ty)[1]))
         IN  Visit(CHOOSE x \in todo : TRUE)

RECURSIVE fieldwise_call_stray_first(_, _, _, _, _, _, _)
\* FieldwiseClassHandler.__call__ looking for stray fields before it pops
\* the first field
fieldwise_call_stray_first(c, ds, fields, i, raw, result_dict, value_type) ==
    IF i = 1 /\ DOMAIN raw \ {fields[j].doc : j \in 1..Len(fields)} # {}
    THEN [c |-> c, r |-> SerdeError("Superfluous object fields",
                                    DOMAIN raw \ {fields[j].doc : j \in 1..Len(fields)})]
    ELSE IF i > Len(fields)
    THEN [c |-> c, r |-> MkObj(value_type, result_dict)]
    ELSE IF fields[i].doc \notin DOMAIN raw
    THEN [c |-> c, r |-> SerdeError("Missing field", {fields[i].doc})]
    ELSE LET Store(p) ==
                 IF IsErr(p.r) THEN p
                 ELSE fieldwise_call_stray_first(p.c, ds, fields, i + 1,
                                                 DictDel(raw, fields[i].doc),
                                                 DictSet(result_dict, fields[i].py, p.r),
                                                 value_type)
         IN  Store(call_handler(c, ds, fields[i].handler, raw[fields[i].doc], fields[i].type))

RECURSIVE fieldwise_call_no_stray_check(_, _, _, _, _, _, _)
\* FieldwiseClassHandler.__call__ without the check for stray fields
fieldwise_call_no_stray_check(c, ds, fields, i, raw, result_dict, value_type) ==
    IF i > Len(fields)
    THEN [c |-> c, r |-> MkObj(value_type, result_dict)]
    ELSE IF fields[i].doc \notin DOMAIN raw
    THEN [c |-> c, r |-> SerdeError("Missing field", {fields[i].doc})]
    ELSE LET Store(p) ==
                 IF IsErr(p.r) THEN p
                 ELSE fieldwise_call_no_stray_check(p.c, ds, fields, i + 1,
                                                    DictDel(raw, fields[i].doc),
                                                    DictSet(result_dict, fields[i].py, p.r),
                                                    value_type)
         IN  Store(call_handler(c, ds, fields[i].handler, raw[fields[i].doc], fields[i].type))

\* FieldwiseClassHandler.__call__ from field i on; raw holds the keys not
\* yet popped, result_dict the fields stored so far
fieldwise_call(c, ds, fields, i, raw, result_dict, value_type) ==
    IF i > Len(fields)
    THEN IF DOMAIN raw # {}
         THEN [c |-> c, r |-> SerdeError("Superfluous object fields", DOMAIN raw)]
         ELSE [c |-> c, r |-> MkObj(value_type, result_dict)]
    ELSE IF fields[i].doc \notin DOMAIN raw
    THEN [c |-> c, r |-> SerdeError("Missing field", {fields[i].doc})]
    ELSE LET Store(p) ==
                 IF IsErr(p.r) THEN p
                 ELSE fieldwise_call(p.c, ds, fields, i + 1, DictDel(raw, fields[i].doc),
                                     DictSet(result_dict, fields[i].py, p.r), value_type)
         IN  Store(call_handler(c, ds, fields[i].handler, raw[fields[i].doc], fields[i].type))

call_handler(c, ds, handler, value, as_type) ==
    CASE handler.h = "custom" ->
            [c |-> c, r |-> ApplyOverride(handler.cb, value)]
      [] handler.h = "method" ->
            [c |-> c, r |-> CallMethod(handler.name, value)]
      [] handler.h = "enum" ->
            [c |-> c, r |-> handle_enum(value, handler.et)]
      [] handler.h = "flag" ->
            [c |-> c, r |-> handle_flag(value, handler.et)]
      [] handler.h = "passthrough" ->
            [c |-> c, r |-> PassthroughCheck(value, handler.pt)]
      [] handler.h = "fieldwise" ->
            IF value.k # "dict" THEN [c |-> c, r |-> SerdeError("Expected object", {})]
            ELSE fieldwise_call(c, ds, handler.fields, 1, value.d, EmptyDict, as_type)
      [] handler.h = "lazy" ->
            [c |-> c, r |-> create_lazy_instance(value, ds, handler.lt)]
      [] handler.h = "as_child" ->
            LET Dispatch(type_tag) ==
                    IF IsErr(type_tag) THEN [c |-> c, r |-> type_tag]
                    ELSE IF ~Hashable(type_tag)
                    THEN [c |-> c, r |-> Raise("TypeError", "unhashable type", {})]
                    ELSE IF type_tag.k # "str" \/ type_tag.s \notin DOMAIN handler.table
                    THEN [c |-> c, r |-> SerdeError("Encountered invalid type tag", {})]
                    ELSE call_handler(c, ds, handler.table[type_tag.s].handler,
                                      MkDict(DictDel(value.d, "type")),
                                      handler.table[type_tag.s].cls)
            IN  Dispatch(PopTypeTag(value))
      [] handler.h = "builtin" /\ handler.fn = "datetime_from_str" ->
            [c |-> c, r |-> _deserialize_datetime_from_str(value)]
      [] handler.h = "builtin" /\ handler.fn = "datetime_from_datetime" ->
            [c |-> c, r |-> _deserialize_datetime_from_datetime(value)]
      [] handler.h = "builtin" /\ handler.fn = "object_id_from_str" ->
            [c |-> c, r |-> _deserialize_object_id_from_str(value)]
      [] handler.h = "builtin" /\ handler.fn = "list" ->
            IF value.k # "list" THEN [c |-> c, r |-> SerdeError("Expected list", {})]
            ELSE LET Items(g) ==
                         IF ~IsHandler(g.h) THEN [c |-> g.c, r |-> g.h]
                         ELSE call_items(g.c, ds, g.h, value.l, get_args(as_type)[1], 1, <<>>)
                 IN  Items(_get_handler(c, ds, get_args(as_type)[1]))
      [] handler.h = "builtin" /\ handler.fn = "tuple" ->
            IF value.k # "list" THEN [c |-> c, r |-> SerdeError("Expected list", {})]
            ELSE IF Len(value.l) # Len(get_args(as_type))
            THEN [c |-> c, r |-> SerdeError("Expected list of length", {})]
            ELSE LET AsTuple(p) == IF IsErr(p.r) THEN p ELSE [c |-> p.c, r |-> MkTuple(p.r.l)]
                 IN  AsTuple(process_items(c, ds, value.l, get_args(as_type), 1, <<>>))
      [] handler.h = "builtin" /\ handler.fn = "set" ->
            IF value.k # "list" THEN [c |-> c, r |-> SerdeError("Expected list", {})]
            ELSE LET AsSet(p) ==
                         IF IsErr(p.r) THEN p
                         ELSE [c |-> p.c, r |-> MkSet({p.r.l[j] : j \in 1..Len(p.r.l)})]
                 IN  AsSet(process_items(c, ds, value.l, <<get_args(as_type)[1]>>, 1, <<>>))
      [] handler.h = "builtin" /\ handler.fn = "dict" ->
            IF value.k # "dict" THEN [c |-> c, r |-> SerdeError("Expected dict", {})]
            ELSE LET Items(gk, gv) ==
                         IF ~IsHandler(gv.h) THEN [c |-> gv.c, r |-> gv.h]
                         ELSE call_dict_items(gv.c, ds, gk.h, gv.h,
                                              [d |-> value.d, ty |-> as_type],
                                              DOMAIN value.d, {})
                     Values_(gk) ==
                         IF ~IsHandler(gk.h) THEN [c |-> gk.c, r |-> gk.h]
                         ELSE Items(gk, _get_handler(gk.c, ds, get_args(as_type)[2]))
                 IN  Values_(_get_handler(c, ds, get_args(as_type)[1]))
      [] handler.h = "builtin" /\ handler.fn = "Union" ->
            IF value.k = "none" THEN [c |-> c, r |-> None]
            ELSE process(c, ds, value, FirstNonNone(get_args(as_type)))

\* CachingSerDeserializer.process
process(c, ds, value, as_type) ==
    IF as_type \in _passthrough_types(ds.fmt)
    THEN [c |-> c, r |-> PassthroughCheck(value, as_type)]
    ELSE LET Call(g) ==
                 IF ~IsHandler(g.h) THEN [c |-> g.c, r |-> g.h]
                 ELSE call_handler(g.c, ds, g.h, value, as_type)
         IN  Call(_get_handler(c, ds, as_type))

\* from_json / from_bson on the handler cache tab of the format
from_doc(tab, fmt, document, as_type, custom_deserializers, lazy) ==
    process([tab |-> tab, w |-> <<>>],
            MkDeserializer(fmt, custom_deserializers, lazy), document, as_type)

(***************************************************************************)
(* lazy_wrapper._lazy_getattr on a lazy shell inst, reached only when the  *)
(* attribute is not in the instance dictionary.  Returns [c, r, inst]:     *)
(* the cache, the value returned or exception raised, the shell afterwards.*)
(***************************************************************************)
FieldDefinition(inst, name) ==
    LET fields == _get_class_fields(inst.ds, inst.t)
    IN  fields[CHOOSE i \in 1..Len(fields) : fields[i].py = name]

HasFieldDefinition(inst, name) ==
    \E i \in 1..Len(_get_class_fields(inst.ds, inst.t)) :
        _get_class_fields(inst.ds, inst.t)[i].py = name

_lazy_getattr(c, inst, name) ==
    IF inst.k # "lazy" \/ ~HasFieldDefinition(inst, name)
    THEN [c |-> c, r |-> Raise("AttributeError", "getattr", {name}), inst |-> inst]
    ELSE LET Store(popped, p) ==
                 IF IsErr(p.r) THEN [c |-> p.c, r |-> p.r, inst |-> popped]
                 ELSE [c |-> p.c, r |-> p.r,
                       inst |-> [popped EXCEPT !.o = DictSet(popped.o, name, p.r)]]
             Parse(fd, popped, g) ==
                 IF ~IsHandler(g.h) THEN [c |-> g.c, r |-> g.h, inst |-> popped]
                 ELSE Store(popped, call_handler(g.c, inst.ds, g.h, inst.rem[fd.doc], fd.type))
             Pop(fd) ==
                 IF fd.doc \notin DOMAIN inst.rem
                 THEN [c |-> c, r |-> SerdeError("Missing field", {fd.doc}), inst |-> inst]
                 ELSE Parse(fd, [inst EXCEPT !.rem = DictDel(inst.rem, fd.doc)],
                            _get_handler(c, inst.ds, fd.type))
         IN  Pop(FieldDefinition(inst, name))

\* getattr(inst, name): the instance dictionary first, then __getattr__
GetAttr(c, inst, name) ==
    IF name \in DOMAIN inst.o THEN [c |-> c, r |-> inst.o[name], inst |-> inst]
    ELSE _lazy_getattr(c, inst, name)

(***************************************************************************)
(* The documents, override maps and calls the engine is driven with.       *)
(***************************************************************************)
Formats == {"json", "bson"}

NoOverrides == <<>>

OverrideMaps == {NoOverrides, << <<"int", "f">> >>}

\* The handlers of the classes of one family never consult the cache
\* entries of another family, and the caches of the two formats are
\* separate dictionaries: a run works on one format and one family.
TypeFamilies ==
    { {"int", "Point", "Outer", "list_int", "list_Point", "set_int", "tuple_int_str",
       "dict_str_int", "Optional_int", "Optional_Point"},
      {"Item"},
      {"Base", "A", "B"} }

\* the record classes that refer to themselves or to each other through
\* an optional or a list, and the types of their fields
RecursiveTypes == {"Node", "PA", "PB", "Optional_Node", "list_Node", "Optional_PB", "list_PA"}

\* the types no handler can be built for without an override
UnsupportedTypes == {"Bag", "frozenset_int"}

DecodeTypes ==
    Types \ ({"bool", "float", "str", "Optional_str", "A", "B"} \cup UnsupportedTypes
                \cup MethodClasses \cup OwnGetattr
                \cup {"Scalars", "Tagged", "Clash", "Event", "Alarm"} \cup RecursiveTypes)

LazyTypes == {"Point", "Outer", "Base"}

EncodeTypes ==
    Classes \ (UnsupportedTypes \cup MethodClasses \cup OwnGetattr
                   \cup {"Scalars", "Tagged", "Clash", "Event", "Alarm"} \cup RecursiveTypes)

JunkDocs == {MkStr("s"), None, MkList(<<MkStr("s")>>)}

BadTags == {MkStr("c"), MkInt(1), MkList(<<>>)}

ValidDocsTable ==
    [fmt \in Formats |-> [T \in Types |->
        CASE T = "set_int"       -> {MkList(<<>>), MkList(<<MkInt(1)>>)}
          [] T = "tuple_int_str" -> {MkList(<<MkInt(1), MkStr("s")>>)}
          [] T = "dict_str_int"  -> {MkDict(EmptyDict), MkDict([a |-> MkInt(1)])}
          [] T = "frozenset_int" -> {MkList(<<>>), MkList(<<MkInt(1)>>)}
          [] T = "Bag" -> {MkDict([p |-> AsDoc(fmt, v, "Point"), q |-> MkList(<<MkInt(1)>>)]) :
                              v \in Values("Point")}
          [] OTHER               -> {AsDoc(fmt, v, T) : v \in Values(T)}]]

ValidDocs(fmt, T) == ValidDocsTable[fmt][T]

\* a document with one key removed, one undeclared key added, or its
\* discriminator replaced
MutatedDocs(doc) ==
    IF doc.k # "dict" THEN {}
    ELSE {MkDict(DictDel(doc.d, key)) : key \in DOMAIN doc.d}
         \cup {MkDict(DictSet(doc.d, "zz", MkInt(1)))}
         \cup (IF "type" \in DOMAIN doc.d
               THEN {MkDict(DictSet(doc.d, "type", tag)) : tag \in BadTags}
               ELSE {})

DocsFor(fmt, T) ==
    ValidDocs(fmt, T) \cup UNION {MutatedDocs(doc) : doc \in ValidDocs(fmt, T)} \cup JunkDocs

LastInit ==
    [op |-> "init", type |-> "int", doc |-> None, src |-> None,
     custom |-> NoOverrides, lazy |-> FALSE, name |-> "", res |-> None, w |-> <<>>]

ObjInit == [inst |-> None, doc |-> None, type |-> "int"]

Init ==
    /\ scope \in [fmt : Formats, types : TypeFamilies]
    /\ cache = InitialHandlerCache
    /\ last = LastInit
    /\ obj = ObjInit
    /\ thr = <<>>
    /\ en = <<>>

\* as_json(value, as_type=T) / as_bson(value, as_type=T)
Encode(T, value) ==
    /\ last.op = "init"
    /\ T \in scope.types
    /\ last' = [LastInit EXCEPT !.op = "as", !.type = T, !.src = value,
                                !.res = AsDoc(scope.fmt, value, T)]
    /\ UNCHANGED <<scope, cache, obj, thr, en>>

\* from_json(doc, T, custom_deserializers=custom, lazy=lazy) / from_bson(...)
Decode(T, doc, custom, lazy) ==
    /\ last.op = "init"
    /\ T \in scope.types
    /\ LET Done(p) ==
               /\ cache' = p.c.tab
               /\ last' = [LastInit EXCEPT !.op = "from", !.type = T, !.doc = doc,
                                           !.custom = custom, !.lazy = lazy, !.res = p.r,
                                           !.w = p.c.w]
               /\ obj' = IF p.r.k = "lazy" THEN [inst |-> p.r, doc |-> doc, type |-> T]
                         ELSE ObjInit
       IN  Done(from_doc(cache, scope.fmt, doc, T, custom, lazy))
    /\ UNCHANGED <<scope, thr, en>>

\* reading attribute name of the lazy record returned by the last decode
ReadField(name) ==
    /\ obj.inst.k = "lazy"
    /\ LET Done(p) ==
               /\ cache' = p.c.tab
               /\ obj' = [obj EXCEPT !.inst = p.inst]
               /\ last' = [LastInit EXCEPT !.op = "getattr", !.type = obj.type,
                                           !.doc = obj.doc, !.lazy = TRUE, !.name = name,
                                           !.res = p.r, !.w = p.c.w]
       IN  Done(GetAttr([tab |-> cache, w |-> <<>>], obj.inst, name))
    /\ UNCHANGED <<scope, thr, en>>

FieldNames(T) == {FieldPyName(ClassDef[T].fields[i]) : i \in 1..Len(ClassDef[T].fields)}

\* the caller drops the result of the call before it calls again
Return ==
    /\ last.op # "init"
    /\ last' = LastInit
    /\ obj' = ObjInit
    /\ UNCHANGED <<scope, cache, thr, en>>

EncodeCalls ==
    [fmt \in Formats |->
        UNION {{<<T, value>> : value \in Values(T)} : T \in EncodeTypes}]

DecodeCalls ==
    [fmt \in Formats |->
        UNION {{<<T, doc, custom, lazy>> :
                   doc \in DocsFor(fmt, T), custom \in OverrideMaps,
                   lazy \in (IF T \in LazyTypes THEN BOOLEAN ELSE {FALSE})} :
               T \in DecodeTypes}]

Next ==
    \/ \E x \in EncodeCalls[scope.fmt] : Encode(x[1], x[2])
    \/ \E x \in DecodeCalls[scope.fmt] : Decode(x[1], x[2], x[3], x[4])
    \/ \E name \in (IF obj.inst.k = "lazy" THEN FieldNames(obj.inst.t) ELSE {}) :
          ReadField(name)
    \/ Return

Spec == Init /\ [][Next]_vars

(***************************************************************************)
(* Properties of the engine.                                               *)
(***************************************************************************)
\* the record classes whose fields are scalars, lists, optionals and
\* nested records
PlainRecordTypes == {"Point", "Item", "Outer"}

EagerDecode == last.op = "from" /\ ~last.lazy

\* the wire keys of the declared fields in a valid document of class T
DeclaredKeys(T, doc) ==
    IF should_serialize_as_child(T) THEN DOMAIN doc.d \ {"type"} ELSE DOMAIN doc.d

\* C2: with lazy=false, decoding a record document with one declared
\* field's key removed raises SerdeError naming that field, and decoding a
\* document with all declared keys plus one undeclared key raises SerdeError
\* naming the superfluous key; no instance is returned in either case.
Strictness ==
    (EagerDecode /\ last.type \in Classes) =>
        \A doc \in ValidDocs(scope.fmt, last.type) :
            /\ \A key \in DeclaredKeys(last.type, doc) :
                  last.doc = MkDict(DictDel(doc.d, key))
                      => last.res = SerdeError("Missing field", {key})
            /\ last.doc = MkDict(DictSet(doc.d, "zz", MkInt(1)))
                  => last.res = SerdeError("Superfluous object fields", {"zz"})

StrictnessWitness ==
    /\ EagerDecode /\ last.type = "Outer"
    /\ \E doc \in ValidDocs(scope.fmt, "Outer") :
          last.doc = MkDict(DictSet(doc.d, "zz", MkInt(1)))
    /\ last.res = SerdeError("Superfluous object fields", {"zz"})

\* C3: encoding a B instance with as_type=Base emits the fields of B only
\* plus the discriminator type = "b"; decoding that document with
\* as_type=Base returns an instance whose class is exactly B.
Polymorphism ==
    /\ (last.op = "as" /\ last.type = "Base" /\ last.src.t = "B") =>
          /\ last.res.k = "dict"
          /\ DOMAIN last.res.d = {"y", "type"}
          /\ last.res.d["y"] = last.src.o["y"]
          /\ last.res.d["type"] = MkStr("b")
    /\ (last.op = "from" /\ last.type = "Base"
            /\ last.doc \in {AsDoc(scope.fmt, v, "Base") : v \in Values("B")}) =>
          /\ last.res.k \in {"obj", "lazy"}
          /\ last.res.t = "B"

PolymorphismWitness ==
    /\ last.op = "from" /\ last.type = "Base" /\ ~last.lazy
    /\ last.doc = MkDict([y |-> MkStr("s"), type |-> MkStr("b")])
    /\ last.res = MkObj("B", [y |-> MkStr("s")])

\* C1: for a record type T of scalars, lists, optionals and nested records
\* and a value v of T, decoding the document that encoding v produced, with
\* as_type=T, lazy=false and no overrides, returns v field for field.
RoundTrip ==
    (EagerDecode /\ last.custom = NoOverrides /\ last.type \in PlainRecordTypes) =>
        \A v \in Values(last.type) :
            last.doc = AsDoc(scope.fmt, v, last.type) => last.res = v

\* the wire tags of the classes of the group of an as_child class
GroupTags(T) ==
    {MkStr(Join(upper_camel_case_to_camel_case(ClassDef[all_subclasses(T, TRUE)[i]].name))) :
        i \in 1..Len(all_subclasses(T, TRUE))}

\* C4: decoding an object through the handler of the group Base never
\* reports the discriminator type as superfluous, and when the key type is
\* absent or its value is not the tag of a class of the group the call
\* raises SerdeError.
Discriminator ==
    (last.op = "from" /\ last.type = "Base" /\ last.doc.k = "dict") =>
        /\ ("type" \notin DOMAIN last.doc.d \/ last.doc.d["type"] \notin GroupTags("Base"))
              => (IsErr(last.res) /\ last.res.e = "SerdeError")
        /\ ~(IsErr(last.res) /\ last.res.m = "Superfluous object fields"
                             /\ "type" \in last.res.n)

RECURSIVE ReadAll(_, _)
RECURSIVE ReadAllFields(_, _, _, _, _)
\* getattr of every declared field of a lazily decoded record, in declaration
\* order, and of the lazily decoded records among the values read
ReadAllFields(c, inst, fields, i, o) ==
    IF i > Len(fields) THEN [c |-> c, r |-> MkObj(inst.t, o)]
    ELSE LET Nested(p, q) ==
                 IF IsErr(q.r) THEN q
                 ELSE ReadAllFields(q.c, p.inst, fields, i + 1,
                                    DictSet(o, FieldPyName(fields[i]), q.r))
             Read(p) ==
                 IF IsErr(p.r) THEN [c |-> p.c, r |-> p.r]
                 ELSE Nested(p, ReadAll(p.c, p.r))
         IN  Read(GetAttr(c, inst, FieldPyName(fields[i])))

ReadAll(c, value) ==
    IF value.k = "lazy"
    THEN ReadAllFields(c, value, custom_get_type_hints(value.t), 1, EmptyDict)
    ELSE [c |-> c, r |-> value]

\* C6: when a document that eager decoding accepts is decoded with
\* lazy=true and every declared field has been read, the fields read hold
\* the values of the fields of the eager decode of the same document.
LazyEquivalence ==
    (obj.inst.k = "lazy" /\ DOMAIN obj.inst.ds.custom = {}
        /\ FieldNames(obj.inst.t) \subseteq DOMAIN obj.inst.o) =>
        LET Same(eager, lazy) == ~IsErr(eager.r) => lazy.r = eager.r
        IN  Same(from_doc(cache, scope.fmt, obj.doc, obj.type, NoOverrides, FALSE),
                 ReadAll([tab |-> cache, w |-> <<>>], obj.inst))

RECURSIVE CapturesOverride(_)
\* the handler is, or holds among its field handlers, the wrapper of a
\* caller's override
CapturesOverride(handler) ==
    CASE handler.h = "custom" -> TRUE
      [] handler.h = "fieldwise" ->
            \E j \in 1..Len(handler.fields) : CapturesOverride(handler.fields[j].handler)
      [] handler.h = "as_child" ->
            \E tag \in DOMAIN handler.table : CapturesOverride(handler.table[tag].handler)
      [] OTHER -> FALSE

RECURSIVE HasOverride(_)
\* some part of the value was made by an override callable
HasOverride(value) ==
    CASE value.k = "ovr"   -> TRUE
      [] value.k = "list"  -> \E j \in 1..Len(value.l) : HasOverride(value.l[j])
      [] value.k = "tuple" -> \E j \in 1..Len(value.tu) : HasOverride(value.tu[j])
      [] value.k = "set"   -> \E x \in value.se : HasOverride(x)
      [] value.k = "map"   -> \E kv \in value.mp : HasOverride(kv[1]) \/ HasOverride(kv[2])
      [] value.k = "obj"   -> \E f \in DOMAIN value.o : HasOverride(value.o[f])
      [] OTHER             -> FALSE

\* the fields of class T whose declared type is X
FieldsOfType(T, X) ==
    {FieldPyName(custom_get_type_hints(T)[i]) :
        i \in {j \in 1..Len(custom_get_type_hints(T)) : custom_get_type_hints(T)[j].type = X}}

\* C7: no cached handler is or holds a caller's override; a call without
\* overrides returns no value made by an override; and a call that
\* overrides int and finds the handler of its record type in the cache
\* still gets the int fields of the record from its override.
OverrideIsolation ==
    /\ \A key \in DOMAIN cache : ~CapturesOverride(cache[key])
    /\ (EagerDecode /\ last.custom = NoOverrides /\ ~IsErr(last.res)) => ~HasOverride(last.res)
    /\ (EagerDecode /\ last.custom # NoOverrides /\ last.type \in PlainRecordTypes
            /\ last.w = <<>> /\ ~IsErr(last.res)) =>
          \A f \in FieldsOfType(last.type, "int") : last.res.o[f].k = "ovr"

RECURSIVE DecodedByOverride(_, _, _)
\* every part of value, decoded as type T, whose type has its key in keys was
\* made by an override callable
DecodedByOverride(value, T, keys) ==
    CASE get_type_key(T) \in keys -> value.k = "ovr"
      [] value.k = "obj" ->
            \A i \in 1..Len(custom_get_type_hints(value.t)) :
                DecodedByOverride(value.o[FieldPyName(custom_get_type_hints(value.t)[i])],
                                  custom_get_type_hints(value.t)[i].type, keys)
      [] value.k = "list" ->
            \A j \in 1..Len(value.l) : DecodedByOverride(value.l[j], get_args(T)[1], keys)
      [] value.k = "tuple" ->
            \A j \in 1..Len(value.tu) : DecodedByOverride(value.tu[j], get_args(T)[j], keys)
      [] value.k = "set" ->
            \A x \in value.se : DecodedByOverride(x, get_args(T)[1], keys)
      [] value.k = "map" ->
            \A kv \in value.mp : /\ DecodedByOverride(kv[1], get_args(T)[1], keys)
                                 /\ DecodedByOverride(kv[2], get_args(T)[2], keys)
      [] T \in GenericTypes /\ get_type_key(T) = "Union" /\ value.k # "none" ->
            DecodedByOverride(value, FirstNonNone(get_args(T)), keys)
      [] OTHER -> TRUE

\* C8: in the value returned by a decode call whose override map has an
\* entry for a type, every part decoded at that type - the top level, a
\* record field, a list, set or tuple element, a dict value, the payload of
\* an optional - was made by the override.
OverridePrecedence ==
    (EagerDecode /\ last.custom # NoOverrides /\ ~IsErr(last.res)) =>
        DecodedByOverride(last.res, last.type, DOMAIN WrapOverrides(last.custom))

\* C9: a step never removes a key of the handler cache nor changes the
\* handler stored under a key, and the keys a call stores were all absent
\* before the call, each stored once.
CacheMonotone ==
    [][/\ \A key \in DOMAIN cache : key \in DOMAIN cache' /\ cache'[key] = cache[key]
       /\ DOMAIN cache' = DOMAIN cache \cup {last'.w[i] : i \in DOMAIN last'.w}
       /\ \A i \in DOMAIN last'.w :
             /\ last'.w[i] \notin DOMAIN cache
             /\ \A j \in DOMAIN last'.w : j # i => last'.w[j] # last'.w[i]]_vars

\* a call with an override for int finds the handler of Point in the cache
\* and leaves it as it was stored by a call without overrides
CacheMonotoneWitness ==
    /\ EagerDecode /\ last.type = "Point" /\ last.custom # NoOverrides
    /\ last.w = <<>>
    /\ <<FALSE, "Point">> \in DOMAIN cache
    /\ ~CapturesOverride(cache[<<FALSE, "Point">>])

\* the characters tags are made of, and the tags of at most MaxTagLen
\* characters
TagChars == {"a", "A", "b", "B", "_", "1"}

Tags == UNION {[1..n -> TagChars] : n \in 0..MaxTagLen}

EnumValues == {MkEnum("Kind", name) : name \in Members("Kind")}

FlagValues == {MkFlag("Perm", names) : names \in SUBSET Members("Perm")}

\* wire values handed to handle_flag: the lists that encoding produces, a
\* list with a tag of no member, a list with an item that is no string, and
\* a value that is no list
FlagDocs ==
    {serialize_enum(value, "Perm") : value \in FlagValues}
        \cup {MkList(<<MkChars(<<"r">>), MkChars(<<"q">>)>>), MkList(<<MkInt(1)>>),
              MkChars(<<"r">>)}

EnumInputs ==
    {[op |-> "in", kind |-> "as_enum", arg |-> value, res |-> None] : value \in EnumValues}
    \cup {[op |-> "in", kind |-> "from_enum", arg |-> MkChars(tag), res |-> None] :
             tag \in Tags}
    \cup {[op |-> "in", kind |-> "from_enum", arg |-> MkInt(1), res |-> None]}
    \cup {[op |-> "in", kind |-> "as_flag", arg |-> value, res |-> None] :
             value \in FlagValues}
    \cup {[op |-> "in", kind |-> "from_flag", arg |-> doc, res |-> None] : doc \in FlagDocs}

InitEnum ==
    /\ scope = [fmt |-> "json", types |-> {}]
    /\ cache = InitialHandlerCache
    /\ last = LastInit
    /\ obj = ObjInit
    /\ thr = <<>>
    /\ en \in EnumInputs

\* as_json(value, as_type=Kind)
EncodeEnum ==
    /\ en.op = "in" /\ en.kind = "as_enum"
    /\ en' = [en EXCEPT !.op = "out", !.res = serialize_enum(en.arg, "Kind")]
    /\ UNCHANGED <<scope, cache, last, obj, thr>>

\* from_json(tag, Kind)
DecodeEnum ==
    /\ en.op = "in" /\ en.kind = "from_enum"
    /\ en' = [en EXCEPT !.op = "out", !.res = handle_enum(en.arg, "Kind")]
    /\ UNCHANGED <<scope, cache, last, obj, thr>>

\* as_json(value, as_type=Perm)
EncodeFlag ==
    /\ en.op = "in" /\ en.kind = "as_flag"
    /\ en' = [en EXCEPT !.op = "out", !.res = serialize_enum(en.arg, "Perm")]
    /\ UNCHANGED <<scope, cache, last, obj, thr>>

\* from_json(tags, Perm)
DecodeFlag ==
    /\ en.op = "in" /\ en.kind = "from_flag"
    /\ en' = [en EXCEPT !.op = "out", !.res = handle_flag(en.arg, "Perm")]
    /\ UNCHANGED <<scope, cache, last, obj, thr>>

NextEnum == EncodeEnum \/ DecodeEnum \/ EncodeFlag \/ DecodeFlag

SpecEnum == InitEnum /\ [][NextEnum]_vars

\* C5: decoding a tag string yields the member V exactly when the tag is
\* the string that encoding V produces, any other tag string raises
\* SerdeError, and decoding the tag list that encoding a flag value
\* produces gives the bits of that value.
EnumTags ==
    /\ (en.op = "out" /\ en.kind = "from_enum" /\ en.arg.k = "str") =>
          /\ \A value \in EnumValues :
                (en.res = value) <=> (en.arg = serialize_enum(value, "Kind"))
          /\ (\A value \in EnumValues : en.arg # serialize_enum(value, "Kind"))
                => (IsErr(en.res) /\ en.res.e = "SerdeError")
    /\ (en.op = "out" /\ en.kind = "from_flag") =>
          \A value \in FlagValues :
              en.arg = serialize_enum(value, "Perm") => en.res = value

(***************************************************************************)
(* Two threads in from_json(doc, Point, custom_deserializers=custom) at    *)
(* once.  A thread is [pc, custom, doc, h, res]; its steps are the lookup  *)
(* of _get_handler, the construction of the handler, the store into the    *)
(* cache and the call of the handler.                                      *)
(***************************************************************************)
Threads == {1, 2}

ThreadInit == [pc |-> "idle", custom |-> NoOverrides, doc |-> None, h |-> None, res |-> None]

ThreadDs(t) == MkDeserializer("json", thr[t].custom, FALSE)

PointKey == <<FALSE, get_type_key("Point")>>

InitConc ==
    /\ scope = [fmt |-> "json", types |-> {"Point"}]
    /\ cache = InitialHandlerCache
    /\ last = LastInit
    /\ obj = ObjInit
    /\ thr = [t \in Threads |-> ThreadInit]
    /\ en = <<>>

\* from_json entered: the deserializer instance is made
Start(t, doc, custom) ==
    /\ thr[t].pc = "idle"
    /\ thr' = [thr EXCEPT ![t] = [ThreadInit EXCEPT !.pc = "check", !.doc = doc,
                                                    !.custom = custom]]
    /\ UNCHANGED <<scope, cache, last, obj, en>>

\* return self._handler_cache[(self._lazy, type_key)], or KeyError
Check(t) ==
    /\ thr[t].pc = "check"
    /\ thr' = [thr EXCEPT ![t] = IF PointKey \in DOMAIN cache
                                 THEN [@ EXCEPT !.pc = "call", !.h = cache[PointKey]]
                                 ELSE [@ EXCEPT !.pc = "build"]]
    /\ UNCHANGED <<scope, cache, last, obj, en>>

\* handler = self._create_class_handler(value_type)
Build(t) ==
    /\ thr[t].pc = "build"
    /\ thr' = [thr EXCEPT ![t] = [@ EXCEPT !.pc = "insert",
                  !.h = _create_class_handler([tab |-> cache, w |-> <<>>],
                                              ThreadDs(t), "Point").h]]
    /\ UNCHANGED <<scope, cache, last, obj, en>>

\* self._handler_cache[(self._lazy, type_key)] = handler
Insert(t) ==
    /\ thr[t].pc = "insert"
    /\ cache' = CacheStore([tab |-> cache, w |-> <<>>], PointKey, thr[t].h).tab
    /\ thr' = [thr EXCEPT ![t] = [@ EXCEPT !.pc = "call"]]
    /\ UNCHANGED <<scope, last, obj, en>>

\* return handler(self, value, as_type)
Call(t) ==
    /\ thr[t].pc = "call"
    /\ thr' = [thr EXCEPT ![t] = [@ EXCEPT !.pc = "done",
                  !.res = call_handler([tab |-> cache, w |-> <<>>], ThreadDs(t),
                                       thr[t].h, thr[t].doc, "Point").r]]
    /\ UNCHANGED <<scope, cache, last, obj, en>>

NextConc ==
    \/ \E t \in Threads, doc \in ValidDocs("json", "Point"), custom \in OverrideMaps :
          Start(t, doc, custom)
    \/ \E t \in Threads : Check(t)
    \/ \E t \in Threads : Build(t)
    \/ \E t \in Threads : Insert(t)
    \/ \E t \in Threads : Call(t)

SpecConc == InitConc /\ [][NextConc]_vars

\* C10: under every interleaving each call returns the value it returns
\* when it runs alone on the initial cache, and the handler left in the
\* cache is the one a single call without overrides stores.
ConcurrentPopulation ==
    /\ \A t \in Threads :
          thr[t].pc = "done" =>
              thr[t].res = from_doc(InitialHandlerCache, "json", thr[t].doc, "Point",
                                    thr[t].custom, FALSE).r
    /\ PointKey \in DOMAIN cache =>
          cache[PointKey] = _get_handler([tab |-> InitialHandlerCache, w |-> <<>>],
                                         MkDeserializer("json", NoOverrides, FALSE),
                                         "Point").h

(***************************************************************************)
(* Calls for a record class with a field whose type has no handler: Bag   *)
(* has the field q: frozenset[int], and frozenset is no key of the         *)
(* handler cache.  The override map of a call may supply a handler.        *)
(***************************************************************************)
BuildOverrideMaps == {NoOverrides, << <<"frozenset", "h">> >>}

BuildCalls ==
    UNION {{<<T, doc, custom, lazy>> :
               doc \in DocsFor("json", T), custom \in BuildOverrideMaps,
               lazy \in (IF T \in Classes THEN BOOLEAN ELSE {FALSE})} :
           T \in UnsupportedTypes}

InitBuild ==
    /\ scope = [fmt |-> "json", types |-> UnsupportedTypes]
    /\ cache = InitialHandlerCache
    /\ last = LastInit
    /\ obj = ObjInit
    /\ thr = <<>>
    /\ en = <<>>

NextBuild ==
    \/ \E x \in BuildCalls : Decode(x[1], x[2], x[3], x[4])
    \/ \E name \in (IF obj.inst.k = "lazy" THEN FieldNames(obj.inst.t) ELSE {}) :
          ReadField(name)
    \/ Return

SpecBuild == InitBuild /\ [][NextBuild]_vars

\* C11: every eager call for Bag without overrides fails in the
\* construction of the handler, in the same way each time, and the cache
\* has no entry for Bag afterwards.
ConstructionFailure ==
    (EagerDecode /\ last.type = "Bag" /\ last.custom = NoOverrides) =>
        /\ last.res = AssertionError
        /\ <<FALSE, "Bag">> \notin DOMAIN cache

(***************************************************************************)
(* Calls for the classes that define as_json, as_bson or from_json         *)
(* themselves.  The instances encoded include one whose field id holds a   *)
(* str, which the generic encoding of the int field rejects.               *)
(***************************************************************************)
MethodValues(T) == Values(T) \cup {MkObj(T, [id |-> MkStr("s")])}

MethodEncodeCalls == UNION {{<<T, value>> : value \in MethodValues(T)} : T \in MethodClasses}

MethodDecodeCalls ==
    [fmt \in Formats |->
        UNION {{<<T, doc, NoOverrides, lazy>> : doc \in DocsFor(fmt, T), lazy \in BOOLEAN} :
               T \in MethodClasses}]

InitMethods ==
    /\ scope \in [fmt : Formats, types : {MethodClasses}]
    /\ cache = InitialHandlerCache
    /\ last = LastInit
    /\ obj = ObjInit
    /\ thr = <<>>
    /\ en = <<>>

NextMethods ==
    \/ \E x \in MethodEncodeCalls : Encode(x[1], x[2])
    \/ \E x \in MethodDecodeCalls[scope.fmt] : Decode(x[1], x[2], x[3], x[4])
    \/ \E name \in (IF obj.inst.k = "lazy" THEN FieldNames(obj.inst.t) ELSE {}) :
          ReadField(name)
    \/ Return

SpecMethods == InitMethods /\ [][NextMethods]_vars

\* C12: an encode call returns what the class's own method for that
\* operation returns when the class defines it - whatever the generic
\* encoding of the instance would do - and the generic object otherwise; a
\* decode call returns what the class's own method for that operation
\* returns when the class defines it, and never the result of a method for
\* another operation.
MethodProtocol ==
    /\ (last.op = "as" /\ last.type \in MethodClasses) =>
          IF overrides_method(last.src.t, "as_" \o scope.fmt)
          THEN last.res = CallMethod("as_" \o scope.fmt, last.src)
          ELSE last.res.k # "ovr"
    /\ (last.op = "from" /\ last.type \in MethodClasses) =>
          IF overrides_method(last.type, "from_" \o scope.fmt)
          THEN last.res = CallMethod("from_" \o scope.fmt, last.doc)
          ELSE last.res.k # "ovr"

(***************************************************************************)
(* Calls that decode, eagerly and lazily, a plain record, a class with its *)
(* own __getattr__ that nests the record, a class with its own from_json,  *)
(* an enumeration and a flag.                                              *)
(***************************************************************************)
LazyUniverse == {"Point", "Hook", "Mark", "Kind", "Perm"}

EnumDocs ==
    [E \in EnumTypes |->
        (IF EnumDef[E].flag THEN FlagDocs
         ELSE {serialize_enum(value, E) : value \in EnumValues} \cup {MkInt(1)})
        \cup {MkDict(EmptyDict)}]

LazyCalls ==
    [fmt \in Formats |->
        UNION {{<<T, doc, NoOverrides, lazy>> :
                   doc \in (IF T \in EnumTypes THEN EnumDocs[T]
                            ELSE ValidDocs(fmt, T) \cup JunkDocs),
                   lazy \in BOOLEAN} :
               T \in LazyUniverse}]

InitLazy ==
    /\ scope \in [fmt : Formats, types : {LazyUniverse}]
    /\ cache = InitialHandlerCache
    /\ last = LastInit
    /\ obj = ObjInit
    /\ thr = <<>>
    /\ en = <<>>

NextLazy ==
    \/ \E x \in LazyCalls[scope.fmt] : Decode(x[1], x[2], x[3], x[4])
    \/ \E name \in (IF obj.inst.k = "lazy" THEN FieldNames(obj.inst.t) ELSE {}) :
          ReadField(name)
    \/ Return

SpecLazy == InitLazy /\ [][NextLazy]_vars

RECURSIVE ContainsLazy(_)
\* the value is a lazy shell or holds one
ContainsLazy(value) ==
    CASE value.k = "lazy"  -> TRUE
      [] value.k = "list"  -> \E j \in 1..Len(value.l) : ContainsLazy(value.l[j])
      [] value.k = "tuple" -> \E j \in 1..Len(value.tu) : ContainsLazy(value.tu[j])
      [] value.k = "set"   -> \E x \in value.se : ContainsLazy(x)
      [] value.k = "map"   -> \E kv \in value.mp : ContainsLazy(kv[1]) \/ ContainsLazy(kv[2])
      [] value.k = "obj"   -> \E f \in DOMAIN value.o : ContainsLazy(value.o[f])
      [] OTHER             -> FALSE

ScalarUniverse == ScalarTypes \cup {"datetime", "ObjectId", "Scalars"}

WireScalars == {MkBool(TRUE), MkBool(FALSE), MkInt(1), MkFloat(1), MkStr("s"), None}

DateTimes == {MkDatetime(at, tz) : at \in Stamps, tz \in Offsets \cup {"naive"}}

Rep(ch, n) == [i \in 1..n |-> ch]

OidValues == {MkOid(Rep("a", OidLen)), MkOid(Rep("0", OidLen))}

\* strings of 24 hex digits, of other lengths, of 24 characters that are
\* not all hex digits, and values that are no strings
OidDocs ==
    {MkChars(cs) : cs \in {Rep("a", OidLen), Rep("A", OidLen), Rep("a", OidLen - 1),
                           Rep("a", OidLen + 1), <<"g">> \o Rep("a", OidLen - 1),
                           Rep(" ", OidLen), <<>>}}
        \cup {MkInt(1), None}

NaiveStrings == {MkChars(<<at>>) : at \in Stamps}

ScalarsDoc == [b |-> MkBool(TRUE), n |-> MkInt(1), w |-> MkFloat(1), s |-> MkStr("s")]

ScalarDocs(fmt, T) ==
    CASE T \in ScalarTypes -> WireScalars
      [] T = "datetime" ->
            IF fmt = "bson" THEN DateTimes \cup NaiveStrings \cup {MkInt(1)}
            ELSE NaiveStrings
                 \cup {MkChars(<<at, off>>) : at \in Stamps, off \in Offsets \cup {"Z"}}
                 \cup {MkChars(<<"x">>), MkInt(1)}
      [] T = "ObjectId" -> OidDocs \cup (IF fmt = "bson" THEN OidValues ELSE {})
      [] T = "Scalars" ->
            {MkDict(DictSet(ScalarsDoc, f, wire)) : f \in DOMAIN ScalarsDoc, wire \in WireScalars}

ScalarValues(T) ==
    CASE T \in ScalarTypes -> WireScalars
      [] T = "datetime" -> DateTimes \cup {MkInt(1)}
      [] T = "ObjectId" -> OidValues \cup {MkInt(1)}
      [] T = "Scalars"  -> Values("Scalars")

ScalarEncodeCalls == UNION {{<<T, value>> : value \in ScalarValues(T)} : T \in ScalarUniverse}

ScalarDecodeCalls ==
    [fmt \in Formats |->
        UNION {{<<T, doc, NoOverrides, lazy>> :
                   doc \in ScalarDocs(fmt, T),
                   lazy \in (IF T \in Classes THEN BOOLEAN ELSE {FALSE})} :
               T \in ScalarUniverse}]

InitScalar ==
    /\ scope \in [fmt : Formats, types : {ScalarUniverse}]
    /\ cache = HandlerCache(scope.fmt)
    /\ last = LastInit
    /\ obj = ObjInit
    /\ thr = <<>>
    /\ en = <<>>

NextScalar ==
    \/ \E x \in ScalarEncodeCalls : Encode(x[1], x[2])
    \/ \E x \in ScalarDecodeCalls[scope.fmt] : Decode(x[1], x[2], x[3], x[4])
    \/ \E name \in (IF obj.inst.k = "lazy" THEN FieldNames(obj.inst.t) ELSE {}) :
          ReadField(name)
    \/ Return

SpecScalar == InitScalar /\ [][NextScalar]_vars

IsSerdeError(r) == r.k = "err" /\ r.e = "SerdeError"

\* C14: encoding a datetime without tzinfo, in either format, raises
\* SerdeError, and so does decoding a JSON date/time string without offset.
ZoneNaive ==
    /\ (last.op = "as" /\ last.type = "datetime" /\ last.src.k = "datetime"
           /\ last.src.tz = "naive") => IsSerdeError(last.res)
    /\ (last.op = "from" /\ scope.fmt = "json" /\ last.type = "datetime"
           /\ last.doc \in NaiveStrings) => IsSerdeError(last.res)

\* the kind of the wire value is the declared kind, or it is an int at float
SameKind(value, typ) == value.k = typ \/ (value.k = "int" /\ typ = "float")

\* C15: a value decoded at bool, int, float or str - at the top level,
\* through the fast path of process, or as a field of Scalars, through the
\* passthrough handler in the cache - is returned when its kind is the
\* declared kind or it is an int at float, and raises SerdeError otherwise.
ScalarCheck ==
    /\ (last.op = "from" /\ last.type \in ScalarTypes) =>
          IF SameKind(last.doc, last.type) THEN last.res = last.doc
          ELSE IsSerdeError(last.res)
    /\ (EagerDecode /\ last.type = "Scalars") =>
          IF \A i \in 1..Len(custom_get_type_hints("Scalars")) :
                 SameKind(last.doc.d[FieldPyName(custom_get_type_hints("Scalars")[i])],
                          custom_get_type_hints("Scalars")[i].type)
          THEN last.res = MkObj("Scalars", last.doc.d)
          ELSE IsSerdeError(last.res)

\* a str of 24 hex digits
IsHexString(value) ==
    /\ value.k = "str"
    /\ Len(value.cs) = OidLen
    /\ \A i \in 1..Len(value.cs) : value.cs[i] \in HexDigits

\* C16: from_json at ObjectId raises SerdeError for every wire value that
\* is not a str of 24 hex digits.
ObjectIdShape ==
    (last.op = "from" /\ scope.fmt = "json" /\ last.type = "ObjectId"
        /\ ~IsHexString(last.doc)) => IsSerdeError(last.res)

(***************************************************************************)
(* schema_mongodb.py: MongoDbSchemaBuilder without custom handlers.  A     *)
(* schema is a document (a dict value); a failed assert is an err value.   *)
(***************************************************************************)
StrList(names) == MkList([i \in 1..Len(names) |-> MkStr(names[i])])

RECURSIVE schema_items(_, _, _)
RECURSIVE schema_process(_)
RECURSIVE union_sub_schemas(_, _)
RECURSIVE class_properties(_, _, _)
RECURSIVE group_schemas(_, _)

\* the values of the one-key schemas of sub_schemas under key, in order
RECURSIVE TypeFields(_, _, _)
TypeFields(sub_schemas, key, i) ==
    IF i > Len(sub_schemas) THEN <<>>
    ELSE (IF DOMAIN sub_schemas[i].d # {key} THEN <<>>
          ELSE IF sub_schemas[i].d[key].k = "list" THEN sub_schemas[i].d[key].l
          ELSE <<sub_schemas[i].d[key]>>)
         \o TypeFields(sub_schemas, key, i + 1)

\* the schemas of sub_schemas that are no one-key type or bsonType schema
Others(sub_schemas) ==
    SelectSeq(sub_schemas, LAMBDA schema : DOMAIN schema.d \notin {{"type"}, {"bsonType"}})

\* the loop of _make_schema_union over get_args(value_type)
union_sub_schemas(args, i) ==
    IF i > Len(args) THEN MkList(<<>>)
    ELSE LET Cons(head, rest) ==
                 IF IsErr(head) THEN head
                 ELSE IF IsErr(rest) THEN rest
                 ELSE MkList(<<head>> \o rest.l)
         IN  Cons(IF args[i] = "NoneType" THEN MkDict([type |-> MkStr("null")])
                  ELSE schema_process(args[i]),
                  union_sub_schemas(args, i + 1))

\* the merge at the end of _make_schema_union
MergeUnion(sub_schemas) ==
    LET Merged(types, bson_types, others) ==
            (IF bson_types # <<>> THEN <<MkDict([bsonType |-> MkList(types \o bson_types)])>>
             ELSE IF types # <<>> THEN <<MkDict([type |-> MkList(types)])>>
             ELSE <<>>) \o others
        Result(merged) ==
            IF Len(merged) = 1 THEN merged[1] ELSE MkDict([anyOf |-> MkList(merged)])
    IN  Result(Merged(TypeFields(sub_schemas, "type", 1),
                      TypeFields(sub_schemas, "bsonType", 1), Others(sub_schemas)))

_make_schema_union(value_type) ==
    LET Merge(subs) == IF IsErr(subs) THEN subs ELSE MergeUnion(subs.l)
    IN  Merge(union_sub_schemas(get_args(value_type), 1))

\* [self.process(subtype) for subtype in get_args(value_type)]
schema_items(args, i, acc) ==
    IF i > Len(args) THEN MkList(acc)
    ELSE LET Add(schema) ==
                 IF IsErr(schema) THEN schema ELSE schema_items(args, i + 1, Append(acc, schema))
         IN  Add(schema_process(args[i]))

\* the loop of _create_class_schema_ignore_serialize_as_child: the pair of
\* doc_field_names and doc_properties
class_properties(fields, i, acc) ==
    IF i > Len(fields) THEN acc
    ELSE LET field_doc_name ==
                 IF fields[i].py = <<"i", "d">> THEN "_id" ELSE JsonDocName(fields[i])
             Add(schema) ==
                 IF IsErr(schema) THEN schema
                 ELSE class_properties(fields, i + 1,
                          [k |-> "acc", names |-> Append(acc.names, field_doc_name),
                           props |-> DictSet(acc.props, field_doc_name, schema)])
         IN  Add(schema_process(fields[i].type))

_create_class_schema_ignore_serialize_as_child(value_type) ==
    LET Result(acc) ==
            IF IsErr(acc) THEN acc
            ELSE IF acc.names # <<>>
            THEN MkDict([type |-> MkStr("object"), properties |-> MkDict(acc.props),
                         additionalProperties |-> MkBool(FALSE),
                         required |-> StrList(acc.names)])
            ELSE MkDict([type |-> MkStr("object"), properties |-> MkDict(acc.props),
                         additionalProperties |-> MkBool(FALSE)])
    IN  Result(class_properties(custom_get_type_hints(value_type), 1,
                                [k |-> "acc", names |-> <<>>, props |-> EmptyDict]))

\* the loop of _make_schema_class over all_subclasses(value_type, True)
group_schemas(subs, i) ==
    IF i > Len(subs) THEN MkList(<<>>)
    ELSE LET Tag(schema) ==
                 IF IsErr(schema) THEN schema
                 ELSE MkDict(
                   [schema.d EXCEPT
                      !["properties"] =
                          MkDict(DictSet(schema.d["properties"].d, "type",
                                   MkDict([enum |-> StrList(<<Join(
                                       upper_camel_case_to_camel_case(ClassDef[subs[i]].name))>>)]))),
                      !["required"] = MkList(<<MkStr("type")>> \o schema.d["required"].l)])
             WithRequired(schema) ==
                 IF IsErr(schema) \/ "required" \in DOMAIN schema.d THEN schema
                 ELSE MkDict(DictSet(schema.d, "required", MkList(<<>>)))
             Cons(head, rest) ==
                 IF IsErr(head) THEN head
                 ELSE IF IsErr(rest) THEN rest
                 ELSE MkList(<<head>> \o rest.l)
         IN  Cons(Tag(WithRequired(_create_class_schema_ignore_serialize_as_child(subs[i]))),
                  group_schemas(subs, i + 1))

_make_schema_class(value_type) ==
    IF overrides_method(value_type, "as_mongodb_schema")
    THEN CallMethod("as_mongodb_schema", None)
    ELSE IF value_type \in EnumTypes
    THEN IF EnumDef[value_type].flag
         THEN MkDict([type |-> MkStr("array"),
                      items |-> MkDict([enum |-> MkList(
                          [i \in 1..Len(EnumDef[value_type].members) |->
                              MkChars(all_upper_to_camel_case(EnumDef[value_type].members[i]))])])])
         ELSE MkDict([enum |-> MkList(
                          [i \in 1..Len(EnumDef[value_type].members) |->
                              MkChars(all_upper_to_camel_case(EnumDef[value_type].members[i]))])])
    ELSE IF ~should_serialize_as_child(value_type)
    THEN _create_class_schema_ignore_serialize_as_child(value_type)
    ELSE LET Combine(subs) ==
                 IF IsErr(subs) THEN subs
                 ELSE IF Len(subs.l) = 1 THEN subs.l[1]
                 ELSE MkDict([anyOf |-> subs])
         IN  Combine(group_schemas(all_subclasses(value_type, TRUE), 1))

\* MongoDbSchemaBuilder.process
schema_process(value_type) ==
    LET key == get_type_key(value_type)
        Array(items) ==
            IF IsErr(items) THEN items
            ELSE MkDict([type |-> MkStr("array"), items |-> items])
        Object(items) ==
            IF IsErr(items) THEN items
            ELSE MkDict([type |-> MkStr("object"), items |-> items])
    IN  CASE key = "bool"  -> MkDict([type |-> MkStr("boolean")])
          [] key = "int"   -> MkDict([bsonType |-> StrList(<<"int", "long">>)])
          [] key = "float" -> MkDict([bsonType |-> StrList(<<"int", "long", "double">>)])
          [] key = "str"   -> MkDict([type |-> MkStr("string")])
          [] key = "datetime" -> MkDict([bsonType |-> MkStr("date")])
          [] key = "ObjectId" -> MkDict([bsonType |-> MkStr("objectId")])
          [] key = "tuple" -> Array(schema_items(get_args(value_type), 1, <<>>))
          [] key \in {"list", "set"} -> Array(schema_process(get_args(value_type)[1]))
          [] key = "dict"  -> IF get_args(value_type)[1] # "str" THEN AssertionError
                              ELSE Object(schema_process(get_args(value_type)[2]))
          [] key = "Union" -> _make_schema_union(value_type)
          [] value_type \in Classes \cup EnumTypes -> _make_schema_class(value_type)
          [] OTHER -> AssertionError

as_mongodb_schema(value_type) == schema_process(value_type)

(***************************************************************************)
(* The three BSON modes on record classes: one with id and an optional     *)
(* field, one whose field id_ has the wire name id, and the group of Base. *)
(***************************************************************************)
SchemaUniverse == {"Item", "Tagged", "Base", "A", "B"}

SchemaTypes ==
    SchemaUniverse \cup EnumTypes
        \cup {"Outer", "Scalars", "tuple_int_str", "dict_str_int", "set_int", "Optional_Point",
              "datetime", "ObjectId", "frozenset_int"}

SchemaEncodeCalls == UNION {{<<T, value>> : value \in Values(T)} : T \in SchemaUniverse}

SchemaDecodeCalls ==
    UNION {{<<T, doc, NoOverrides, FALSE>> : doc \in DocsFor("bson", T)} : T \in SchemaUniverse}

InitSchema ==
    /\ scope = [fmt |-> "bson", types |-> SchemaUniverse]
    /\ cache = HandlerCache("bson")
    /\ last = LastInit
    /\ obj = ObjInit
    /\ thr = <<>>
    /\ en = <<>>

\* as_mongodb_schema(T)
Schema(T) ==
    /\ last.op = "init"
    /\ last' = [LastInit EXCEPT !.op = "schema", !.type = T, !.res = as_mongodb_schema(T)]
    /\ UNCHANGED <<scope, cache, obj, thr, en>>

NextSchema ==
    \/ \E x \in SchemaEncodeCalls : Encode(x[1], x[2])
    \/ \E x \in SchemaDecodeCalls : Decode(x[1], x[2], x[3], x[4])
    \/ \E T \in SchemaTypes : Schema(T)
    \/ Return

SpecSchema == InitSchema /\ [][NextSchema]_vars

\* the object schema of the instances of class cls themselves: the schema
\* of cls, or the first alternative of it when cls has subclasses
ClassSchema(cls) ==
    LET Pick(schema) ==
            IF "anyOf" \in DOMAIN schema.d THEN schema.d["anyOf"].l[1] ELSE schema
    IN  Pick(as_mongodb_schema(cls))

Properties(cls) == DOMAIN ClassSchema(cls).d["properties"].d

Required(cls) ==
    LET Names(schema) ==
            IF "required" \notin DOMAIN schema.d THEN {}
            ELSE {schema.d["required"].l[i].s : i \in 1..Len(schema.d["required"].l)}
    IN  Names(ClassSchema(cls))

\* C17: the keys of the document as_bson makes of an instance are the keys
\* of properties and the names in required of the schema of its class, and
\* from_bson decodes that document; the keys of a document from_bson
\* decodes are those of the schema of the class of the result; every schema
\* of a class requires all its properties.
WireNames ==
    /\ (last.op = "as" /\ last.res.k = "dict") =>
          /\ DOMAIN last.res.d = Properties(last.src.t)
          /\ DOMAIN last.res.d = Required(last.src.t)
          /\ ~IsErr(from_doc(cache, "bson", last.res, last.type, NoOverrides, FALSE).r)
    /\ (last.op = "from" /\ last.res.k = "obj") =>
          DOMAIN last.doc.d = Properties(last.res.t)
    /\ (last.op = "schema" /\ last.type \in Classes) =>
          Properties(last.type) = Required(last.type)

\* field fd of the lazy record inst is raw: its fragment is in
\* _uniserde_remaining_fields_ and vars(inst) has no value for it
IsRaw(inst, fd) == fd.doc \in DOMAIN inst.rem /\ fd.py \notin DOMAIN inst.o

\* field fd of inst is decoded: vars(inst) has its value and the fragment is gone
IsDecoded(inst, fd) == fd.py \in DOMAIN inst.o /\ fd.doc \notin DOMAIN inst.rem

\* every declared field of the lazy record held by the caller is raw or decoded
RawOrDecoded ==
    obj.inst.k = "lazy" =>
        \A i \in 1..Len(_get_class_fields(obj.inst.ds, obj.inst.t)) :
            \/ IsRaw(obj.inst, _get_class_fields(obj.inst.ds, obj.inst.t)[i])
            \/ IsDecoded(obj.inst, _get_class_fields(obj.inst.ds, obj.inst.t)[i])

\* a read keeps every stored value, and the read of a stored field returns
\* it and asks for no handler
ReadStep ==
    (obj.inst.k = "lazy" /\ obj'.inst.k = "lazy" /\ last'.op = "getattr") =>
        /\ \A name \in DOMAIN obj.inst.o :
              name \in DOMAIN obj'.inst.o /\ obj'.inst.o[name] = obj.inst.o[name]
        /\ DOMAIN obj'.inst.rem \subseteq DOMAIN obj.inst.rem
        /\ last'.name \in DOMAIN obj.inst.o =>
              last'.res = obj.inst.o[last'.name] /\ cache' = cache /\ obj' = obj

\* C18: each declared field of a lazy record is always either raw or
\* decoded; a read moves no field back from decoded to raw, and the read of
\* a decoded field returns the stored value without a handler.
LazyLifecycle == []RawOrDecoded /\ [][ReadStep]_vars

(***************************************************************************)
(* Calls with override maps of two entries, for int and for str, in either *)
(* order, on a class with an int and a str field and on dict[str, int].    *)
(***************************************************************************)
PairOverrideMaps ==
    {NoOverrides, << <<"int", "f">>, <<"str", "g">> >>, << <<"str", "g">>, <<"int", "f">> >>}

PairUniverse == {"Scalars", "dict_str_int"}

PairDocs(fmt, T) == IF T = "Scalars" THEN ScalarDocs(fmt, T) ELSE ValidDocs(fmt, T) \cup JunkDocs

PairCalls ==
    [fmt \in Formats |->
        UNION {{<<T, doc, custom, FALSE>> : doc \in PairDocs(fmt, T), custom \in PairOverrideMaps} :
               T \in PairUniverse}]

InitPairs ==
    /\ scope \in [fmt : Formats, types : {PairUniverse}]
    /\ cache = HandlerCache(scope.fmt)
    /\ last = LastInit
    /\ obj = ObjInit
    /\ thr = <<>>
    /\ en = <<>>

NextPairs ==
    \/ \E x \in PairCalls[scope.fmt] : Decode(x[1], x[2], x[3], x[4])
    \/ Return

SpecPairs == InitPairs /\ [][NextPairs]_vars

\* custom_deserializers[t] of the caller's map
Registered(custom, t) == custom[CHOOSE i \in 1..Len(custom) : custom[i][1] = t][2]

\* C19: a call whose override map has entries for int and for str decodes
\* the int field of Scalars with the callable registered for int and the
\* str field with the callable registered for str, and the keys and values
\* of a dict[str, int] likewise.
OverridePairs ==
    (EagerDecode /\ Len(last.custom) >= 2) =>
        /\ (last.type = "Scalars" /\ last.res.k = "obj") =>
              /\ last.res.o["n"] = ApplyOverride(Registered(last.custom, "int"), last.doc.d["n"])
              /\ last.res.o["s"] = ApplyOverride(Registered(last.custom, "str"), last.doc.d["s"])
        /\ (last.type = "dict_str_int" /\ last.res.k = "map") =>
              \A kv \in last.res.mp :
                  /\ kv[1].k = "ovr" /\ kv[1].cb = Registered(last.custom, "str")
                  /\ kv[2].k = "ovr" /\ kv[2].cb = Registered(last.custom, "int")

(***************************************************************************)
(* Calls on the containers: for each origin two or three parameterized     *)
(* types, which share the cache key of the origin, each encoded from and   *)
(* decoded at every value and document of the others.                      *)
(***************************************************************************)
ContainerUniverse ==
    {"list_int", "list_str", "list_Point", "set_int", "set_str", "tuple_int_str",
     "tuple_str_int", "dict_str_int", "dict_str_str", "Optional_int", "Optional_str",
     "Optional_Point"}

PointValue == MkObj("Point", [x |-> MkInt(1), y |-> MkInt(1)])

ContainerValues ==
    {MkList(<<>>), MkList(<<MkInt(1)>>), MkList(<<MkStr("s")>>), MkList(<<PointValue>>),
     MkTuple(<<MkInt(1), MkStr("s")>>), MkTuple(<<MkStr("s"), MkInt(1)>>),
     MkSet({}), MkSet({MkInt(1)}), MkSet({MkStr("s")}),
     MkMap({}), MkMap({<<MkStr("a"), MkInt(1)>>}), MkMap({<<MkStr("a"), MkStr("s")>>}),
     None, MkInt(1), MkStr("s"), PointValue}

ContainerDocs(fmt) ==
    {MkList(<<>>), MkList(<<MkInt(1)>>), MkList(<<MkStr("s")>>),
     MkList(<<AsDoc(fmt, PointValue, "Point")>>),
     MkList(<<MkInt(1), MkStr("s")>>), MkList(<<MkStr("s"), MkInt(1)>>),
     MkDict(EmptyDict), MkDict([a |-> MkInt(1)]), MkDict([a |-> MkStr("s")]),
     None, MkInt(1), MkStr("s"), AsDoc(fmt, PointValue, "Point")}

InitContainers ==
    /\ scope \in [fmt : Formats, types : {ContainerUniverse}]
    /\ cache = HandlerCache(scope.fmt)
    /\ last = LastInit
    /\ obj = ObjInit
    /\ thr = <<>>
    /\ en = <<>>

NextContainers ==
    \/ \E T \in ContainerUniverse, value \in ContainerValues : Encode(T, value)
    \/ \E T \in ContainerUniverse, doc \in ContainerDocs(scope.fmt) :
          Decode(T, doc, NoOverrides, FALSE)
    \/ Return

SpecContainers == InitContainers /\ [][NextContainers]_vars

\* the handler of type X applied to the wire value v, on the cache as it is
DecodedAt(v, X) == from_doc(cache, scope.fmt, v, X, NoOverrides, FALSE).r

\* the serializer of type X applied to the value v
EncodedAt(v, X) == AsDoc(scope.fmt, v, X)

\* the parameters of T as they are written in the type
Params(T) == TypeTable[T].args

\* what decoding doc at the container type T gives when each element is
\* decoded at the parameter of T in its position
DecodedElementwise(T, doc) ==
    CASE TypeTable[T].origin = "list" ->
            doc.k = "list" /\ last.res = MkList([j \in 1..Len(doc.l) |-> DecodedAt(doc.l[j], Params(T)[1])])
      [] TypeTable[T].origin = "set" ->
            doc.k = "list" /\ last.res = MkSet({DecodedAt(doc.l[j], Params(T)[1]) : j \in 1..Len(doc.l)})
      [] TypeTable[T].origin = "tuple" ->
            /\ doc.k = "list"
            /\ Len(doc.l) = Len(Params(T))
            /\ last.res = MkTuple([j \in 1..Len(doc.l) |-> DecodedAt(doc.l[j], Params(T)[j])])
      [] TypeTable[T].origin = "dict" ->
            /\ doc.k = "dict"
            /\ last.res = MkMap({<<DecodedAt(MkStr(key), Params(T)[1]),
                                   DecodedAt(doc.d[key], Params(T)[2])>> : key \in DOMAIN doc.d})
      [] TypeTable[T].origin = "Union" ->
            IF doc.k = "none" THEN last.res = None
            ELSE last.res = DecodedAt(doc, Params(T)[1])

\* what encoding value at the container type T gives when each element is
\* encoded at the parameter of T in its position
EncodedElementwise(T, value) ==
    CASE TypeTable[T].origin = "list" ->
            value.k = "list"
                /\ last.res = MkList([j \in 1..Len(value.l) |-> EncodedAt(value.l[j], Params(T)[1])])
      [] TypeTable[T].origin = "set" ->
            value.k = "set"
                /\ \E order \in [1..Cardinality(value.se) -> value.se] :
                      /\ {order[j] : j \in DOMAIN order} = value.se
                      /\ last.res = MkList([j \in DOMAIN order |-> EncodedAt(order[j], Params(T)[1])])
      [] TypeTable[T].origin = "tuple" ->
            /\ value.k = "tuple"
            /\ Len(value.tu) = Len(Params(T))
            /\ last.res = MkList([j \in 1..Len(value.tu) |-> EncodedAt(value.tu[j], Params(T)[j])])
      [] TypeTable[T].origin = "dict" ->
            /\ value.k = "map"
            /\ DOMAIN last.res.d = {EncodedAt(kv[1], Params(T)[1]).s : kv \in value.mp}
            /\ \A kv \in value.mp :
                  last.res.d[EncodedAt(kv[1], Params(T)[1]).s] = EncodedAt(kv[2], Params(T)[2])
      [] TypeTable[T].origin = "Union" ->
            IF value.k = "none" THEN last.res = None
            ELSE last.res = EncodedAt(value, Params(T)[1])

\* C20: a call at a parameterized container type that returns a value
\* returns the elements decoded (encoded) by the handlers of the parameters
\* of that very type, whatever other parameterizations of the same origin
\* were used before; and it returns a value whenever those handlers accept
\* every element.
ContainerElements ==
    /\ (last.op = "from" /\ last.type \in ContainerUniverse /\ ~IsErr(last.res)) =>
          DecodedElementwise(last.type, last.doc)
    /\ (last.op = "as" /\ last.type \in ContainerUniverse /\ ~IsErr(last.res)) =>
          EncodedElementwise(last.type, last.src)
    /\ (last.op = "from" /\ last.type \in {"list_int", "list_str", "list_Point"}
           /\ last.doc.k = "list" /\ IsErr(last.res)) =>
          \E j \in 1..Len(last.doc.l) : IsErr(DecodedAt(last.doc.l[j], Params(last.type)[1]))

\* list[Point] was decoded after list[int] or list[str] went through the
\* handler under the same key, or a list[str] was encoded
ContainerElementsWitness ==
    \/ /\ last.op = "from"
       /\ last.type = "list_Point"
       /\ last.res = MkList(<<PointValue>>)
    \/ /\ last.op = "as"
       /\ last.type = "list_str"
       /\ last.res = MkList(<<MkStr("s")>>)

(***************************************************************************)
(* Strictness of lazily decoded records.                                   *)
(***************************************************************************)
\* the wire names of the declared fields of the class of the lazy record
DocNames(inst) ==
    {_get_class_fields(inst.ds, inst.t)[i].doc :
        i \in 1..Len(_get_class_fields(inst.ds, inst.t))}

\* the document the record was made from has an undeclared key or lacks a
\* declared one, and the eager decode of it raises SerdeError
KeyDefect ==
    /\ obj.doc.k = "dict"
    /\ DeclaredKeys(obj.type, obj.doc) # DocNames(obj.inst)
    /\ IsSerdeError(from_doc(InitialHandlerCache, scope.fmt, obj.doc, obj.type,
                             NoOverrides, FALSE).r)

\* every declared field of the lazy record was read and returned a value
AllFieldsRead == FieldNames(obj.inst.t) \subseteq DOMAIN obj.inst.o

\* C21: a lazy record made from a document with an undeclared key or
\* without a declared key, which eager decoding rejects, never reaches the
\* state where every declared field was read without a SerdeError.
LazyStrictness == (obj.inst.k = "lazy" /\ KeyDefect) => ~AllFieldsRead

(***************************************************************************)
(* Eager decodes of record documents that lack declared keys, carry        *)
(* undeclared keys, or both, and of documents with a field of the wrong    *)
(* kind.                                                                   *)
(***************************************************************************)
OrderUniverse == {"Point", "Outer", "Item"}

\* the document restricted to some of its keys, with or without the
\* undeclared key zz
KeySubsets(doc) ==
    {MkDict([key \in keys |-> doc.d[key]]) : keys \in SUBSET DOMAIN doc.d}
    \cup {MkDict(DictSet([key \in keys |-> doc.d[key]], "zz", MkInt(1))) :
             keys \in SUBSET DOMAIN doc.d}

\* the document with the value of one key replaced by a list of a string
BadValued(doc) == {MkDict(DictSet(doc.d, key, MkList(<<MkStr("s")>>))) : key \in DOMAIN doc.d}

OrderDocs(fmt, T) ==
    UNION {KeySubsets(doc) : doc \in ValidDocs(fmt, T) \cup UNION {BadValued(v) : v \in ValidDocs(fmt, T)}}

OrderCalls ==
    [fmt \in Formats |-> UNION {{<<T, doc>> : doc \in OrderDocs(fmt, T)} : T \in OrderUniverse}]

InitOrder ==
    /\ scope \in [fmt : Formats, types : {OrderUniverse}]
    /\ cache = InitialHandlerCache
    /\ last = LastInit
    /\ obj = ObjInit
    /\ thr = <<>>
    /\ en = <<>>

NextOrder ==
    \/ \E x \in OrderCalls[scope.fmt] : Decode(x[1], x[2], NoOverrides, FALSE)
    \/ Return

SpecOrder == InitOrder /\ [][NextOrder]_vars

\* the declared fields of the class decoded by the last call
LastFields == _get_class_fields(MkDeserializer(scope.fmt, NoOverrides, FALSE), last.type)

\* the declared fields whose wire key the document lacks, by position
MissingAt == {i \in 1..Len(LastFields) : LastFields[i].doc \notin DOMAIN last.doc.d}

\* the keys of the document that are the wire key of no declared field
Undeclared == DOMAIN last.doc.d \ {LastFields[i].doc : i \in 1..Len(LastFields)}

FirstMissing == CHOOSE i \in MissingAt : \A j \in MissingAt : i <= j

\* the declared fields before position n have their key in the document
\* and their value decodes at the type of the field
DecodesBefore(n) ==
    \A i \in 1..(n - 1) :
        /\ LastFields[i].doc \in DOMAIN last.doc.d
        /\ ~IsErr(from_doc(cache, scope.fmt, last.doc.d[LastFields[i].doc], LastFields[i].type,
                           NoOverrides, FALSE).r)

RecordDecode == EagerDecode /\ last.type \in OrderUniverse /\ last.doc.k = "dict"

\* the claim as stated: the check for superfluous fields comes first
SuperfluousFirst ==
    RecordDecode =>
        /\ (MissingAt # {} /\ Undeclared # {} /\ DecodesBefore(FirstMissing)) =>
              last.res = SerdeError("Superfluous object fields", Undeclared)
        /\ (MissingAt # {} /\ Undeclared = {} /\ DecodesBefore(FirstMissing)) =>
              last.res = SerdeError("Missing field", {LastFields[FirstMissing].doc})
        /\ (MissingAt = {} /\ Undeclared # {} /\ DecodesBefore(Len(LastFields) + 1)) =>
              last.res = SerdeError("Superfluous object fields", Undeclared)

\* C22: in eager record decoding the missing-field check comes before the
\* superfluous-field check: when the fields declared before the first
\* absent key decode, a document that lacks a declared key raises the
\* missing-field error naming the first absent key, whether or not it
\* carries undeclared keys; a document that has every declared key, whose
\* fields all decode, and carries undeclared keys raises the
\* superfluous-field error naming them.
MissingFirst ==
    RecordDecode =>
        /\ (MissingAt # {} /\ DecodesBefore(FirstMissing)) =>
              last.res = SerdeError("Missing field", {LastFields[FirstMissing].doc})
        /\ (MissingAt = {} /\ Undeclared # {} /\ DecodesBefore(Len(LastFields) + 1)) =>
              last.res = SerdeError("Superfluous object fields", Undeclared)

\* a document with the key y absent and the key zz added was decoded at Point
MissingFirstWitness ==
    /\ EagerDecode /\ last.type = "Point"
    /\ last.doc.k = "dict" /\ DOMAIN last.doc.d = {"x", "zz"}
    /\ last.res = SerdeError("Missing field", {"y"})

(***************************************************************************)
(* Wire names of pairs of field names, and the encoding of record classes, *)
(* one of which declares the fields a and a_.                              *)
(***************************************************************************)
NameChars == {"a", "b", "_"}

MaxNameLen == 3

\* the lower-case identifiers of at most MaxNameLen characters
FieldNameSet == UNION {[1..n -> NameChars] : n \in 1..MaxNameLen}

NameUniverse == {"Clash", "Point", "Item", "Base", "A", "B"}

\* the key a field name is written under: all_lower_to_camel_case, and for
\* BSON the key id renamed to _id by serialize_class
WireKey(fmt, name) ==
    IF fmt = "bson" /\ Join(all_lower_to_camel_case(name)) = "id" THEN "_id"
    ELSE Join(all_lower_to_camel_case(name))

InitNames ==
    /\ scope \in [fmt : Formats, types : {NameUniverse}]
    /\ cache = InitialHandlerCache
    /\ last = LastInit
    /\ obj = ObjInit
    /\ thr = <<>>
    /\ en = <<>>

\* the wire keys of two field names of one class
ConvertNames(a, b) ==
    /\ last.op = "init"
    /\ last' = [LastInit EXCEPT !.op = "names",
                                !.src = MkList(<<MkChars(a), MkChars(b)>>),
                                !.res = MkList(<<MkStr(WireKey(scope.fmt, a)),
                                                 MkStr(WireKey(scope.fmt, b))>>)]
    /\ UNCHANGED <<scope, cache, obj, thr, en>>

NextNames ==
    \/ \E a \in FieldNameSet, b \in FieldNameSet : ConvertNames(a, b)
    \/ \E T \in NameUniverse : \E value \in Values(T) : Encode(T, value)
    \/ Return

SpecNames == InitNames /\ [][NextNames]_vars

\* the fields the encoding of value at type T writes
EncodedFields(T, value) ==
    custom_get_type_hints(IF should_serialize_as_child(T) THEN value.t ELSE T)

\* C23: two distinct lower-case field names never have the same wire key,
\* in either format, and the document that encoding a record produces has
\* one key per declared field (and the discriminator of a polymorphic
\* group), each holding the encoding of that field's value.
WireInjective ==
    /\ (last.op = "names" /\ last.src.l[1] # last.src.l[2]) =>
          last.res.l[1] # last.res.l[2]
    /\ (last.op = "as" /\ last.type \in NameUniverse /\ ~IsErr(last.res)) =>
          /\ Cardinality(DOMAIN last.res.d \ {"type"}) =
                Len(EncodedFields(last.type, last.src))
          /\ \A i \in 1..Len(EncodedFields(last.type, last.src)) :
                LET field == EncodedFields(last.type, last.src)[i]
                IN  last.res.d[WireKey(scope.fmt, field.py)] =
                        AsDoc(scope.fmt, last.src.o[FieldPyName(field)], field.type)

(***************************************************************************)
(* Schemas of union types.  A union type is given by its alternatives, a   *)
(* sequence without repetition (typing.Union drops repeated alternatives). *)
(***************************************************************************)
UnionAlternatives ==
    {"NoneType", "bool", "int", "float", "str", "datetime", "Point", "list_int", "Base"}

MaxUnionLen == 3

UnionArgs ==
    {args \in UNION {[1..n -> UnionAlternatives] : n \in 2..MaxUnionLen} :
        \A i \in 1..Len(args), j \in 1..Len(args) : i # j => args[i] # args[j]}

InitUnion ==
    /\ scope = [fmt |-> "bson", types |-> {}]
    /\ cache = HandlerCache("bson")
    /\ last = LastInit
    /\ obj = ObjInit
    /\ thr = <<>>
    /\ en = <<>>

\* as_mongodb_schema(Union[args]): _make_schema_union with get_args giving args
SchemaOfUnion(args) ==
    /\ last.op = "init"
    /\ last' = [LastInit EXCEPT
                   !.op = "union", !.src = StrList(args),
                   !.res = LET Merge(subs) == IF IsErr(subs) THEN subs ELSE MergeUnion(subs.l)
                           IN  Merge(union_sub_schemas(args, 1))]
    /\ UNCHANGED <<scope, cache, obj, thr, en>>

NextUnion ==
    \/ \E args \in UnionArgs : SchemaOfUnion(args)
    \/ Return

SpecUnion == InitUnion /\ [][NextUnion]_vars

\* the schema of one alternative of a union
AlternativeSchema(arg) ==
    IF arg = "NoneType" THEN MkDict([type |-> MkStr("null")]) ELSE as_mongodb_schema(arg)

\* the schema has nothing but a type tag or a list of type tags
IsScalarSchema(schema) == DOMAIN schema.d \in {{"type"}, {"bsonType"}}

\* the type tags a scalar schema contributes
TagsOf(schema) ==
    LET Tags_(field) == IF field.k = "list" THEN {field.l[i] : i \in 1..Len(field.l)} ELSE {field}
    IN  Tags_(schema.d[CHOOSE key \in DOMAIN schema.d : TRUE])

\* the schemas of the alternatives named in the last call
LastAlternatives == [i \in 1..Len(last.src.l) |-> AlternativeSchema(last.src.l[i].s)]

\* the sibling schemas of the result of the last call
Siblings == IF DOMAIN last.res.d = {"anyOf"} THEN last.res.d["anyOf"].l ELSE <<last.res>>

\* the siblings that hold merged type tags
MergedSiblings == SelectSeq(Siblings, IsScalarSchema)

\* the list of merged type tags
MergedTags == MergedSiblings[1].d[CHOOSE key \in DOMAIN MergedSiblings[1].d : TRUE].l

\* C24: the schema of a union type has one list of type tags holding every
\* tag of the scalar alternatives exactly once, keeps every non-scalar
\* alternative as a sibling schema, and is the single schema itself when
\* only one is left.
UnionFlattening ==
    (last.op = "union" /\ ~IsErr(last.res)) =>
        /\ (\E i \in 1..Len(LastAlternatives) : IsScalarSchema(LastAlternatives[i])) =>
              /\ Len(MergedSiblings) = 1
              /\ {MergedTags[i] : i \in 1..Len(MergedTags)} =
                    UNION {TagsOf(LastAlternatives[i]) :
                              i \in {j \in 1..Len(LastAlternatives) :
                                        IsScalarSchema(LastAlternatives[j])}}
              /\ \A i \in 1..Len(MergedTags), j \in 1..Len(MergedTags) :
                    i # j => MergedTags[i] # MergedTags[j]
        /\ SelectSeq(Siblings, LAMBDA schema : ~IsScalarSchema(schema)) =
              SelectSeq(LastAlternatives, LAMBDA schema : ~IsScalarSchema(schema))
        /\ (Len(Siblings) = 1) = (DOMAIN last.res.d # {"anyOf"})

(***************************************************************************)
(* Reads of a lazy record that fail in the handler of the field.           *)
(***************************************************************************)
\* the step is a read of a field that was raw and whose handler raised
FailedFirstRead ==
    /\ obj.inst.k = "lazy"
    /\ last'.op = "getattr"
    /\ HasFieldDefinition(obj.inst, last'.name)
    /\ IsRaw(obj.inst, FieldDefinition(obj.inst, last'.name))
    /\ IsErr(last'.res)

\* after the step the record is as before and the same read fails the same way
RecordKept ==
    /\ obj'.inst = obj.inst
    /\ GetAttr([tab |-> cache', w |-> <<>>], obj'.inst, last'.name).r = last'.res

\* C25: when the handler of a raw field raises during the first read of the
\* field, the lazy record is left unchanged (the field is still raw), and
\* reading the field again raises the same error.
LazyReadFailure == [][FailedFirstRead => RecordKept]_vars

(***************************************************************************)
(* Two threads reading fields of one lazy record.  The record was made by  *)
(* from_json / from_bson with lazy=True from a valid document.  A reader   *)
(* is [pc, name, raw, val, res]; its steps are the lookup in the instance  *)
(* dictionary, the pop of the raw value in _lazy_getattr, the call of the  *)
(* handler and the store of the parsed value.                              *)
(***************************************************************************)
ReaderUniverse == {"Point", "Scalars"}

ReaderInit == [pc |-> "idle", name |-> "", raw |-> None, val |-> None, res |-> None]

\* the lazy record shared by the readers, and the document it was made from
SharedRecords ==
    UNION {{[inst |-> from_doc(HandlerCache(fmt), fmt, doc, T, NoOverrides, TRUE).r,
             doc |-> doc, type |-> T, fmt |-> fmt] :
               doc \in (IF T = "Scalars" THEN {MkDict(ScalarsDoc)} ELSE ValidDocs(fmt, T))} :
           fmt \in Formats, T \in ReaderUniverse}

InitReaders ==
    \E shared \in SharedRecords :
        /\ scope = [fmt |-> shared.fmt, types |-> ReaderUniverse]
        /\ cache = from_doc(HandlerCache(shared.fmt), shared.fmt, shared.doc, shared.type,
                            NoOverrides, TRUE).c.tab
        /\ last = LastInit
        /\ obj = [inst |-> shared.inst, doc |-> shared.doc, type |-> shared.type]
        /\ thr = [t \in Threads |-> ReaderInit]
        /\ en = <<>>

\* getattr(inst, name): the value in the instance dictionary, or the call
\* of __getattr__ when there is none
Look(t, name) ==
    /\ thr[t].pc = "idle"
    /\ thr' = [thr EXCEPT ![t] =
                  IF name \in DOMAIN obj.inst.o
                  THEN [@ EXCEPT !.pc = "done", !.name = name, !.res = obj.inst.o[name]]
                  ELSE [@ EXCEPT !.pc = "pop", !.name = name]]
    /\ UNCHANGED <<scope, cache, last, obj, en>>

\* field_raw_value = self._uniserde_remaining_fields_.pop(field_doc_name)
Pop(t) ==
    /\ thr[t].pc = "pop"
    /\ LET fd == FieldDefinition(obj.inst, thr[t].name)
       IN  IF fd.doc \in DOMAIN obj.inst.rem
           THEN /\ thr' = [thr EXCEPT ![t] = [@ EXCEPT !.pc = "parse",
                                                       !.raw = obj.inst.rem[fd.doc]]]
                /\ obj' = [obj EXCEPT !.inst.rem = DictDel(obj.inst.rem, fd.doc)]
           ELSE /\ thr' = [thr EXCEPT ![t] = [@ EXCEPT !.pc = "done",
                                  !.res = SerdeError("Missing field", {fd.doc})]]
                /\ obj' = obj
    /\ UNCHANGED <<scope, cache, last, en>>

\* parsed_value = self._get_handler(field_type)(serdeserializer, raw, field_type)
Parse(t) ==
    /\ thr[t].pc = "parse"
    /\ LET Done(p) ==
               /\ cache' = p.c.tab
               /\ thr' = [thr EXCEPT ![t] =
                             IF IsErr(p.r) THEN [@ EXCEPT !.pc = "done", !.res = p.r]
                             ELSE [@ EXCEPT !.pc = "store", !.val = p.r]]
           Call_(fd, g) ==
               IF ~IsHandler(g.h) THEN Done([c |-> g.c, r |-> g.h])
               ELSE Done(call_handler(g.c, obj.inst.ds, g.h, thr[t].raw, fd.type))
           Handler(fd) ==
               Call_(fd, _get_handler([tab |-> cache, w |-> <<>>], obj.inst.ds, fd.type))
       IN  Handler(FieldDefinition(obj.inst, thr[t].name))
    /\ UNCHANGED <<scope, last, obj, en>>

\* vars(self)[name] = parsed_value; return parsed_value
StoreParsed(t) ==
    /\ thr[t].pc = "store"
    /\ obj' = [obj EXCEPT !.inst.o = DictSet(obj.inst.o, thr[t].name, thr[t].val)]
    /\ thr' = [thr EXCEPT ![t] = [@ EXCEPT !.pc = "done", !.res = thr[t].val]]
    /\ UNCHANGED <<scope, cache, last, en>>

NextReaders ==
    \/ \E t \in Threads, name \in FieldNames(obj.type) : Look(t, name)
    \/ \E t \in Threads : Pop(t)
    \/ \E t \in Threads : Parse(t)
    \/ \E t \in Threads : StoreParsed(t)

SpecReaders == InitReaders /\ [][NextReaders]_vars

\* the value of field name of the eager decode of the document of the record
EagerField(name) ==
    from_doc(HandlerCache(scope.fmt), scope.fmt, obj.doc, obj.type, NoOverrides, FALSE).r.o[name]

\* C26: under every interleaving of two threads reading fields of one lazy
\* record made from a valid document, every read that has returned gave
\* the decoded value of its field, and none raised.
ConcurrentReads ==
    \A t \in Threads :
        thr[t].pc = "done" => (~IsErr(thr[t].res) /\ thr[t].res = EagerField(thr[t].name))

(***************************************************************************)
(* Polymorphic groups, one of which declares a field named type: Event     *)
(* with the field type: str and its subclass Alarm with the field n.       *)
(***************************************************************************)
TypedUniverse == {"Event", "Alarm", "Base"}

InitTyped ==
    /\ scope \in [fmt : Formats, types : {TypedUniverse}]
    /\ cache = InitialHandlerCache
    /\ last = LastInit
    /\ obj = ObjInit
    /\ thr = <<>>
    /\ en = <<>>

NextTyped ==
    \/ \E T \in TypedUniverse : \E value \in Values(T) : Encode(T, value)
    \/ \E T \in TypedUniverse : \E doc \in DocsFor(scope.fmt, T) :
          Decode(T, doc, NoOverrides, FALSE)
    \/ \E T \in TypedUniverse : Schema(T)
    \/ Return

SpecTyped == InitTyped /\ [][NextTyped]_vars

\* the wire tag of class cls
TagOf(cls) == MkStr(Join(upper_camel_case_to_camel_case(ClassDef[cls].name)))

\* C27: the document encoding a member of a polymorphic group holds the
\* encoded value of every declared field under the field's wire key and the
\* tag of the class under the key type, and decoding it at the type it was
\* encoded at returns the value encoded.
DiscriminatorData ==
    (last.op = "as" /\ last.type \in TypedUniverse /\ ~IsErr(last.res)) =>
        /\ \A i \in 1..Len(custom_get_type_hints(last.src.t)) :
              LET field == custom_get_type_hints(last.src.t)[i]
              IN  /\ WireKey(scope.fmt, field.py) \in DOMAIN last.res.d
                  /\ last.res.d[WireKey(scope.fmt, field.py)] =
                        AsDoc(scope.fmt, last.src.o[FieldPyName(field)], field.type)
        /\ "type" \in DOMAIN last.res.d
        /\ last.res.d["type"] = TagOf(last.src.t)
        /\ from_doc(cache, scope.fmt, last.res, last.type, NoOverrides, FALSE).r = last.src

(***************************************************************************)
(* Construction of the handlers of record classes that refer to themselves *)
(* or to each other: Node {v: int, next: Optional[Node], children:         *)
(* list[Node]}, PA {b: Optional[PB]} and PB {a: list[PA]}, beside Outer,  *)
(* whose field p is a Point.  One call of _get_handler is followed step by *)
(* step: the builder is [pc, goal, lazy, stack, n, res], where stack holds *)
(* one frame [cls, i, acc] per running _create_fieldwise_class_handler and *)
(* n counts the steps of the call.  Python raises RecursionError when the  *)
(* calls nest deeper than the recursion limit.                             *)
(***************************************************************************)
RecUniverse == {"Node", "PA", "PB"}

BuildUniverse == RecUniverse \cup {"Outer", "Point"}

RecursionLimit == 4

RecursionError == Raise("RecursionError", "maximum recursion depth exceeded", {})

BuilderInit ==
    [pc |-> "idle", goal |-> "Node", lazy |-> FALSE, stack |-> <<>>, n |-> 0, res |-> None]

BuilderDs == MkDeserializer(scope.fmt, NoOverrides, thr.lazy)

LeafDoc == MkDict([v |-> MkInt(1), next |-> None, children |-> MkList(<<>>)])

\* documents of finite depth that encode values of the classes
RecValidDocs(T) ==
    CASE T = "Node" ->
            {LeafDoc,
             MkDict([v |-> MkInt(1), next |-> LeafDoc, children |-> MkList(<<>>)]),
             MkDict([v |-> MkInt(1), next |-> None, children |-> MkList(<<LeafDoc>>)]),
             MkDict([v |-> MkInt(1), next |-> LeafDoc, children |-> MkList(<<LeafDoc>>)])}
      [] T = "PA" ->
            {MkDict([b |-> None]),
             MkDict([b |-> MkDict([a |-> MkList(<<>>)])]),
             MkDict([b |-> MkDict([a |-> MkList(<<MkDict([b |-> None])>>)])])}
      [] T = "PB" ->
            {MkDict([a |-> MkList(<<>>)]),
             MkDict([a |-> MkList(<<MkDict([b |-> None])>>)])}

\* documents with a defect at the top or inside a nested record
RecBadDocs(T) ==
    CASE T = "Node" ->
            {MkDict([v |-> MkInt(1), next |-> MkDict([v |-> MkInt(1)]),
                     children |-> MkList(<<>>)]),
             MkDict([v |-> MkInt(1), next |-> None, children |-> MkList(<<MkInt(1)>>)]),
             MkDict([v |-> MkInt(1), next |-> None])}
      [] T = "PA" -> {MkDict([b |-> MkDict([a |-> MkList(<<MkInt(1)>>)])]), MkInt(1)}
      [] T = "PB" -> {MkDict([a |-> MkList(<<MkDict(EmptyDict)>>)]), None}

InitRec ==
    /\ scope \in [fmt : Formats, types : {RecUniverse}]
    /\ cache = InitialHandlerCache
    /\ last = LastInit
    /\ obj = ObjInit
    /\ thr = BuilderInit
    /\ en = <<>>

\* _get_handler(value_type) entered: a cached handler is returned, the lazy
\* closure is made and stored, or _create_fieldwise_class_handler starts
BeginBuild(T, lazy) ==
    /\ thr.pc = "idle"
    /\ last.op = "init"
    /\ LET ds == MkDeserializer(scope.fmt, NoOverrides, lazy)
           Enter(look) ==
               IF look.hit
               THEN /\ thr' = [BuilderInit EXCEPT !.pc = "done", !.goal = T, !.lazy = lazy,
                                                  !.res = look.h]
                    /\ cache' = cache
               ELSE IF lazy /\ can_create_lazy_instance(look.build)
               THEN /\ thr' = [BuilderInit EXCEPT !.pc = "done", !.goal = T, !.lazy = lazy,
                                  !.n = 1, !.res = [h |-> "lazy", lt |-> look.build]]
                    /\ cache' = CacheStore([tab |-> cache, w |-> <<>>], <<lazy, look.build>>,
                                           [h |-> "lazy", lt |-> look.build]).tab
               ELSE /\ thr' = [BuilderInit EXCEPT !.pc = "build", !.goal = T, !.lazy = lazy,
                                  !.stack = <<[cls |-> look.build, i |-> 1, acc |-> <<>>]>>]
                    /\ cache' = cache
       IN  Enter(_get_handler_lookup(cache, ds, T))
    /\ UNCHANGED <<scope, last, obj, en>>

TopFrame == thr.stack[Len(thr.stack)]

TopFields == _get_class_fields(BuilderDs, TopFrame.cls)

\* the frame with the handler of its current field added
WithField(frame, fields, handler) ==
    [frame EXCEPT !.i = @ + 1,
                  !.acc = Append(@, [py |-> fields[frame.i].py, doc |-> fields[frame.i].doc,
                                     type |-> fields[frame.i].type, handler |-> handler])]

\* handler.add_field(..., self._get_handler(field_type)) with a handler that
\* _get_handler returns without building
AddField ==
    /\ thr.pc = "build"
    /\ TopFrame.i <= Len(TopFields)
    /\ _get_handler_lookup(cache, BuilderDs, TopFields[TopFrame.i].type).hit
    /\ thr' = [thr EXCEPT !.n = @ + 1,
                          !.stack[Len(thr.stack)] =
                              WithField(TopFrame, TopFields,
                                  _get_handler_lookup(cache, BuilderDs,
                                                      TopFields[TopFrame.i].type).h)]
    /\ UNCHANGED <<scope, cache, last, obj, en>>

\* self._get_handler(field_type) has to build the handler of the field:
\* the nested _create_fieldwise_class_handler starts, unless the type is no
\* class (the assert of _get_handler) or the calls nest too deep
Descend ==
    /\ thr.pc = "build"
    /\ TopFrame.i <= Len(TopFields)
    /\ ~_get_handler_lookup(cache, BuilderDs, TopFields[TopFrame.i].type).hit
    /\ LET build == _get_handler_lookup(cache, BuilderDs, TopFields[TopFrame.i].type).build
       IN  thr' = IF build \notin Classes
                  THEN [thr EXCEPT !.pc = "done", !.n = @ + 1, !.stack = <<>>,
                                   !.res = AssertionError]
                  ELSE IF Len(thr.stack) >= RecursionLimit
                  THEN [thr EXCEPT !.pc = "done", !.n = @ + 1, !.stack = <<>>,
                                   !.res = RecursionError]
                  ELSE [thr EXCEPT !.n = @ + 1,
                                   !.stack = Append(@, [cls |-> build, i |-> 1, acc |-> <<>>])]
    /\ UNCHANGED <<scope, cache, last, obj, en>>

\* the loop over the fields has ended: _create_fieldwise_class_handler
\* returns and _get_handler stores the handler and returns it to its caller
CloseFrame ==
    /\ thr.pc = "build"
    /\ TopFrame.i > Len(TopFields)
    /\ LET handler == [h |-> "fieldwise", fields |-> TopFrame.acc]
           below == SubSeq(thr.stack, 1, Len(thr.stack) - 1)
       IN  /\ cache' = CacheStore([tab |-> cache, w |-> <<>>],
                                  <<thr.lazy, TopFrame.cls>>, handler).tab
           /\ thr' = IF below = <<>>
                     THEN [thr EXCEPT !.pc = "done", !.n = @ + 1, !.stack = <<>>,
                                      !.res = handler]
                     ELSE [thr EXCEPT !.n = @ + 1,
                              !.stack = [below EXCEPT ![Len(below)] =
                                  WithField(below[Len(below)],
                                            _get_class_fields(BuilderDs, below[Len(below)].cls),
                                            handler)]]
    /\ UNCHANGED <<scope, last, obj, en>>

\* the caller has the handler
EndBuild ==
    /\ thr.pc = "done"
    /\ thr' = BuilderInit
    /\ UNCHANGED <<scope, cache, last, obj, en>>

NextRec ==
    \/ \E T \in BuildUniverse, lazy \in BOOLEAN : BeginBuild(T, lazy)
    \/ AddField
    \/ Descend
    \/ CloseFrame
    \/ EndBuild
    \/ \E T \in RecUniverse : \E doc \in RecValidDocs(T) \cup RecBadDocs(T) :
          thr.pc = "idle" /\ Decode(T, doc, NoOverrides, FALSE)
    \/ thr.pc = "idle" /\ Return

SpecRec == InitRec /\ [][NextRec]_vars

\* C28: a call of _get_handler for a record class whose references to
\* record classes all pass through an optional or a list ends within one
\* step per declared field and one more, without RecursionError, with a
\* handler that is stored in the cache under the key of the class - the
\* handler _get_handler gives on the initial cache; every eager decode of
\* a document of finite depth at such a class returns the value the
\* document encodes or raises SerdeError.
HandlerTermination ==
    /\ thr.goal \in RecUniverse =>
          /\ thr.n <= Len(custom_get_type_hints(thr.goal)) + 1
          /\ Len(thr.stack) <= 1
          /\ thr.pc = "done" =>
                /\ IsHandler(thr.res)
                /\ <<thr.lazy, thr.goal>> \in DOMAIN cache
                /\ cache[<<thr.lazy, thr.goal>>] = thr.res
                /\ thr.res = _get_handler([tab |-> InitialHandlerCache, w |-> <<>>],
                                          BuilderDs, thr.goal).h
    /\ (last.op = "from" /\ last.type \in RecUniverse) =>
          IF last.doc \in RecValidDocs(last.type)
          THEN ~IsErr(last.res) /\ AsDoc(scope.fmt, last.res, last.type) = last.doc
          ELSE IsSerdeError(last.res)

\* the handler of Node was built field by field and stored, and a document
\* with a nested Node was decoded
HandlerTerminationWitness ==
    \/ /\ thr.pc = "done" /\ thr.goal = "Node" /\ ~thr.lazy /\ thr.n = 4
       /\ thr.res.h = "fieldwise"
    \/ /\ last.op = "from" /\ last.type = "Node" /\ last.res.k = "obj"
       /\ last.res.o["next"].k = "obj"

\* ---------------------------------------------------------------------------
\* TimerDict: a dictionary whose items are dropped after a set amount of time
\* (timer_dict/__init__.py)
\* ---------------------------------------------------------------------------

TimerKeys == {"a", "b"}

TimerValues == {MkInt(1), MkInt(2)}

\* the clock runs from 0 to MaxTime
MaxTime == 2

\* the longest timedelta given to put or to the constructor
MaxDuration == 1

\* the longest _timestamp_queue: put is not called on a longer one
MaxQueue == 3

\* the duration argument of put: None, a timedelta or a datetime
Durations ==
    {None} \cup {[k |-> "timedelta", s |-> s] : s \in 0..MaxDuration}
           \cup {[k |-> "datetime", ts |-> ts] : ts \in 0..MaxTime}

KeyError(key) == Raise("KeyError", key, {})

\* the order of the str keys of queue items with equal timestamps
KeyRank(key) == IF key = "a" THEN 0 ELSE 1

\* (timestamp, key) tuples compare by timestamp, then by key
TupleLess(x, y) == x[1] < y[1] \/ (x[1] = y[1] /\ KeyRank(x[2]) < KeyRank(y[2]))

\* heapq.heappush: the queue is held in the order in which heappop takes it
heappush(queue, item) ==
    LET before == SelectSeq(queue, LAMBDA x : ~TupleLess(item, x))
        after == SelectSeq(queue, LAMBDA x : TupleLess(item, x))
    IN  before \o <<item>> \o after

heappop(queue) == Tail(queue)

\* TimerDict._purge_outdated with time.time() = now
RECURSIVE _purge_outdated(_, _, _)
_purge_outdated(_entries, _timestamp_queue, now) ==
    IF _timestamp_queue = <<>>
    THEN [_entries |-> _entries, _timestamp_queue |-> _timestamp_queue]
    ELSE LET queue_timestamp == _timestamp_queue[1][1]
             key == _timestamp_queue[1][2]
         IN  IF queue_timestamp > now
             THEN [_entries |-> _entries, _timestamp_queue |-> _timestamp_queue]
             ELSE _purge_outdated(
                      IF key \in DOMAIN _entries /\ _entries[key][1] < now
                      THEN DictDel(_entries, key) ELSE _entries,
                      heappop(_timestamp_queue), now)

\* what the last operation saw: the entry of its key before the call
TimerLast(op, key, res) ==
    [op |-> op, key |-> key, now |-> en.time,
     had |-> key \in DOMAIN obj._entries,
     expiry |-> IF key \in DOMAIN obj._entries THEN obj._entries[key][1] ELSE 0,
     val |-> IF key \in DOMAIN obj._entries THEN obj._entries[key][2] ELSE None,
     res |-> res]

InitTimer ==
    \E default_duration \in 0..MaxDuration :
        /\ scope = [fmt |-> "json", types |-> {}]
        /\ cache = <<>>
        /\ obj = [default_duration |-> default_duration, _entries |-> <<>>,
                  _timestamp_queue |-> <<>>]
        /\ en = [time |-> 0]
        /\ thr = <<>>
        /\ last = [op |-> "init", key |-> "", now |-> 0, had |-> FALSE, expiry |-> 0,
                   val |-> None, res |-> None]

\* time.time() moves on between two operations
Tick ==
    /\ en.time < MaxTime
    /\ en' = [en EXCEPT !.time = @ + 1]
    /\ UNCHANGED <<scope, cache, last, obj, thr>>

\* TimerDict.put(key, value, duration), and __setitem__ with duration None
put(key, value, duration) ==
    /\ Len(obj._timestamp_queue) < MaxQueue
    /\ LET timestamp == IF duration = None THEN en.time + obj.default_duration
                        ELSE IF duration.k = "timedelta" THEN en.time + duration.s
                        ELSE duration.ts
           Then(p) ==
               obj' = [obj EXCEPT
                          !._entries = DictSet(p._entries, key, <<timestamp, value>>),
                          !._timestamp_queue = heappush(p._timestamp_queue,
                                                        <<timestamp, key>>)]
       IN  Then(_purge_outdated(obj._entries, obj._timestamp_queue, en.time))
    /\ last' = TimerLast("put", key, None)
    /\ UNCHANGED <<scope, cache, thr, en>>

\* TimerDict.__getitem__(key)
__getitem__(key) ==
    /\ LET Then(p) ==
               /\ obj' = [obj EXCEPT !._entries = p._entries,
                                     !._timestamp_queue = p._timestamp_queue]
               /\ last' = TimerLast("get", key,
                                    IF key \in DOMAIN p._entries THEN p._entries[key][2]
                                    ELSE KeyError(key))
       IN  Then(_purge_outdated(obj._entries, obj._timestamp_queue, en.time))
    /\ UNCHANGED <<scope, cache, thr, en>>

\* TimerDict.__delitem__(key)
__delitem__(key) ==
    /\ IF key \in DOMAIN obj._entries
       THEN /\ obj' = [obj EXCEPT !._entries = DictDel(obj._entries, key)]
            /\ last' = TimerLast("del", key, None)
       ELSE /\ obj' = obj
            /\ last' = TimerLast("del", key, KeyError(key))
    /\ UNCHANGED <<scope, cache, thr, en>>

NextTimer ==
    \/ Tick
    \/ \E key \in TimerKeys, value \in TimerValues, duration \in Durations :
           put(key, value, duration)
    \/ \E key \in TimerKeys : __getitem__(key)
    \/ \E key \in TimerKeys : __delitem__(key)

SpecTimer == InitTimer /\ [][NextTimer]_vars

\* C29: a lookup of a key whose expiry time is at or before the current time
\* raises KeyError, also after a purge that ran at exactly the expiry time,
\* and a lookup of a key whose expiry time (the one of its last put) is later
\* than the current time returns its value, whatever earlier queue items of
\* the key were purged
TimerExpiry ==
    /\ (last.op = "get" /\ last.had /\ last.expiry <= last.now) =>
           last.res = KeyError(last.key)
    /\ (last.op = "get" /\ last.had /\ last.expiry > last.now) =>
           last.res = last.val

\* ---------------------------------------------------------------------------
\* unicall: decoding the parameters of a JSON-RPC request
\* (unicall/__init__.py)
\* ---------------------------------------------------------------------------

\* _local_methods_: the (name, type) pairs of the parameters of each local
\* method, in the order of its signature
LocalMethods ==
    [move  |-> <<<<"point", "Point">>, <<"n", "int">>>>,
     total |-> <<<<"numbers", "list_int">>>>,
     ping  |-> <<>>]

\* the longest list of passed parameters
MaxParams == 2

RpcError(msg, names) == Raise("RpcError", msg, names)

RpcDeserializer == MkDeserializer("json", NoOverrides, FALSE)

\* the serialized values a request carries for a parameter of type T
ParamDocs(T) == ValidDocs("json", T) \cup {MkStr("s")}

AllParamDocs == UNION {ParamDocs(T) : T \in {"Point", "int", "list_int"}}

\* params as a list, of any length
ListParams == {MkList(s) : s \in SeqsUpTo(AllParamDocs, MaxParams)}

\* params as an object: any of the parameter names, and a stray name
ObjectParams(formal_parameters) ==
    LET TypeOf(name) ==
            IF name = "zz" THEN "int"
            ELSE formal_parameters[CHOOSE i \in 1..Len(formal_parameters) :
                                       formal_parameters[i][1] = name][2]
        Names == {formal_parameters[i][1] : i \in 1..Len(formal_parameters)} \cup {"zz"}
    IN  UNION {{MkDict(d) : d \in {f \in [S -> AllParamDocs] :
                                      \A name \in S : f[name] \in ParamDocs(TypeOf(name))}} :
               S \in SUBSET Names}

\* the document object after uniserde.from_json(document, as_type) decoded it:
\* FieldwiseClassHandler.__call__ pops the declared keys from the dict it is given
consumed(document, as_type) ==
    IF as_type \in Classes /\ document.k = "dict"
    THEN LET fields == _get_class_fields(RpcDeserializer, as_type)
             popped == {fields[i].doc : i \in 1..Len(fields)}
         IN  MkDict([x \in DOMAIN document.d \ popped |-> document.d[x]])
    ELSE document

\* the loop over zip(passed_parameters_flat, formal_parameters): result holds
\* the decoded values, flat the passed objects as decoding leaves them
RECURSIVE deserialize_each(_, _, _, _, _, _)
deserialize_each(c, method_name_json, formal_parameters, flat, i, result) ==
    IF i > Len(flat) \/ i > Len(formal_parameters)
    THEN [c |-> c, result |-> result, flat |-> flat, err |-> None]
    ELSE LET Then(p) ==
                 IF IsSerdeError(p.r)
                 THEN [c |-> p.c, result |-> result, flat |-> flat,
                       err |-> RpcError("Invalid value for parameter",
                                        {formal_parameters[i][1]})]
                 ELSE IF IsErr(p.r)
                 THEN [c |-> p.c, result |-> result, flat |-> flat, err |-> p.r]
                 ELSE deserialize_each(p.c, method_name_json, formal_parameters,
                          [flat EXCEPT ![i] = consumed(flat[i], formal_parameters[i][2])],
                          i + 1, Append(result, p.r))
         IN  Then(process(c, RpcDeserializer, flat[i], formal_parameters[i][2]))

\* Unicall._deserialize_parameters: [c, r], r the returned list or the error
_deserialize_parameters(c, method_name_json, formal_parameters, passed_parameters) ==
    LET names == {formal_parameters[i][1] : i \in 1..Len(formal_parameters)}
        Return_(p) == [c |-> p.c,
                       r |-> IF p.err # None THEN p.err ELSE MkList(p.flat)]
        Deserialize(flat) ==
            Return_(deserialize_each(c, method_name_json, formal_parameters, flat, 1, <<>>))
    IN  IF passed_parameters.k = "list"
        THEN IF Len(passed_parameters.l) # Len(formal_parameters)
             THEN [c |-> c, r |-> RpcError("expects parameter(s)", {})]
             ELSE Deserialize(passed_parameters.l)
        ELSE IF \E i \in 1..Len(formal_parameters) :
                    formal_parameters[i][1] \notin DOMAIN passed_parameters.d
        THEN [c |-> c,
              r |-> RpcError("is missing parameter",
                        {formal_parameters[CHOOSE i \in 1..Len(formal_parameters) :
                            /\ formal_parameters[i][1] \notin DOMAIN passed_parameters.d
                            /\ \A j \in 1..(i - 1) :
                                  formal_parameters[j][1] \in DOMAIN passed_parameters.d][1]})]
        ELSE IF DOMAIN passed_parameters.d # names
        THEN [c |-> c,
              r |-> RpcError("has received superfluous parameters",
                             DOMAIN passed_parameters.d \ names)]
        ELSE Deserialize([i \in 1..Len(formal_parameters) |->
                             passed_parameters.d[formal_parameters[i][1]]])

\* no local method was called yet
NoCall == [called |-> FALSE, method |-> "", args |-> <<>>]

InitRpc ==
    /\ scope = [fmt |-> "json", types |-> {"Point", "int", "list_int"}]
    /\ cache = HandlerCache("json")
    /\ last = LastInit
    /\ obj = ObjInit
    /\ thr = NoCall
    /\ en = <<>>

\* Unicall._handle_request from the lookup of the method: the parameters are
\* decoded and the method is called with what _deserialize_parameters returned
_handle_request(method_name_json, passed_parameters) ==
    /\ LET Then(p) ==
               /\ cache' = p.c.tab
               /\ last' = [LastInit EXCEPT !.op = "rpc", !.name = method_name_json,
                                           !.doc = passed_parameters, !.res = p.r]
               /\ thr' = IF IsErr(p.r) THEN NoCall
                         ELSE [called |-> TRUE, method |-> method_name_json,
                               args |-> p.r.l]
       IN  Then(_deserialize_parameters([tab |-> cache, w |-> <<>>], method_name_json,
                                        LocalMethods[method_name_json], passed_parameters))
    /\ UNCHANGED <<scope, obj, en>>

NextRpc ==
    \E method_name_json \in DOMAIN LocalMethods :
        \E passed_parameters \in ListParams \cup ObjectParams(LocalMethods[method_name_json]) :
            _handle_request(method_name_json, passed_parameters)

SpecRpc == InitRpc /\ [][NextRpc]_vars

\* the passed parameters in the order of the signature
SignatureOrder(formal_parameters, passed_parameters) ==
    IF passed_parameters.k = "list" THEN passed_parameters.l
    ELSE [i \in 1..Len(formal_parameters) |-> passed_parameters.d[formal_parameters[i][1]]]

\* the request names every parameter once and nothing else
Matches(formal_parameters, passed_parameters) ==
    IF passed_parameters.k = "list"
    THEN Len(passed_parameters.l) = Len(formal_parameters)
    ELSE DOMAIN passed_parameters.d =
             {formal_parameters[i][1] : i \in 1..Len(formal_parameters)}

\* uniserde.from_json of each passed parameter, in the order of the signature
Deserialized(formal_parameters, passed_parameters) ==
    [i \in 1..Len(formal_parameters) |->
        from_doc(HandlerCache("json"), "json",
                 SignatureOrder(formal_parameters, passed_parameters)[i],
                 formal_parameters[i][2], NoOverrides, FALSE).r]

\* C30: for a request whose parameters all decode without error, what
\* _deserialize_parameters returns, and what _handle_request calls the local
\* method with, are the uniserde-deserialized values of the passed parameters
\* in the order of the method signature, for list and for object params
RpcParameters ==
    (/\ last.op = "rpc"
     /\ Matches(LocalMethods[last.name], last.doc)
     /\ \A i \in 1..Len(LocalMethods[last.name]) :
           ~IsErr(Deserialized(LocalMethods[last.name], last.doc)[i])) =>
        /\ last.res = MkList(Deserialized(LocalMethods[last.name], last.doc))
        /\ thr.called
        /\ thr.method = last.name
        /\ thr.args = Deserialized(LocalMethods[last.name], last.doc)

====
